---- MODULE Spec2Model ----
(***************************************************************************)
(* Retention-AI: the incremental retraining pipeline.                      *)
(*   scripts/process_upload.py     Upload Ingestor                         *)
(*   scripts/process_new_data.py   Dataset Merger + Retrain Scheduler      *)
(*   scripts/automated_pipeline.py Scheduling Loop                         *)
(* All persisted state is flat files; a file is modelled by its CSV        *)
(* content (a header and rows), the counter file by its JSON record.       *)
(***************************************************************************)
EXTENDS Integers, Sequences, FiniteSets, TLC

VARIABLES
    inbox,      \* datasets/user-uploads.csv
    main,       \* datasets/main-dataset.csv, the authoritative dataset
    prep,       \* datasets/user-uploads-preprocessed.csv
    tableA,     \* datasets/model_a_train.csv
    tableB,     \* datasets/model_b_train.csv
    ctrFile,    \* datasets/training_counters.json: "missing", "ok" or "corrupt"
    ctr,        \* the record in the counter file when it is "ok"
    ev,         \* what the last handler run did, in order
    hist,       \* history: rows uploaded and ingested, trainings, steps taken
    m_target,   \* MergeSpec: content of the training table file being merged into
    m_before,   \* MergeSpec: content of that file before the last merge
    m_batch,    \* MergeSpec: the batch (new_df) of the last merge
    m_count,    \* MergeSpec: number of merges done
    m_fallback, \* FallbackSpec: the fallback files of the table, by timestamp
    m_clock,    \* FallbackSpec, ArchiveSpec: int(time.time())
    m_raised,   \* FallbackSpec: the last merge raised inside the routine
    m_redirected, \* FallbackSpec: the batches whose merge raised, in order
    loop,       \* LoopSpec: the scheduling loop: "running", "interrupted", "ended"
    r_pred,     \* datasets/churn_prediction.csv, a derived table
    r_expl,     \* outputs/explanations: file user_<k>.json, by k
    r_charts,   \* outputs/charts: file user_<k>.png, by k
    r_backup,   \* the files copied to the backup directories of the reindex run
    r_phase,    \* the reindex run's position in reindex_user_ids.main
    r_pc,       \* the index in DATASET_FILES of the next file to remap
    r_map,      \* id_map
    r_todo,     \* the files of the running glob loop still to be visited
    r_hist,     \* history of the reindex run and of the userids
    preds,      \* datasets/model_a_predictions.csv and model_b_predictions.csv
    sched,      \* SchedSpec: the job the scheduling loop is in, and where in it
    archive,    \* datasets/archived_uploads: file preprocessed_<t>.csv, by t
    r_runs,     \* RerunSpec: the reindex runs completed before the current one
    ext         \* RaceSpec: a run of process_new_data.py beside the loop

mvars == <<m_target, m_before, m_batch, m_count>>
fvars == <<m_fallback, m_clock, m_raised, m_redirected>>
pvars == <<inbox, main, prep, tableA, tableB, ctrFile, ctr, ev, hist>>
rvars == <<r_pred, r_expl, r_charts, r_backup, r_phase, r_pc, r_map, r_todo, r_hist>>
yvars == <<archive, r_runs, ext>>
xvars == <<preds, sched, yvars>>
others == <<mvars, fvars, rvars, xvars>>
vars == <<pvars, others, loop>>

----------------------------------------------------------------------------
(* CSV cells. A cell is a number, a non-empty text, or the empty field     *)
(* (pandas: NaN after read_csv, '' or NaN before to_csv).                  *)
Num(n) == <<"n", n>>
Text(s) == <<"s", s>>
Empty == <<"e", 0>>

ToSet(seq) == {seq[i] : i \in DOMAIN seq}

(* A file that is absent or has size zero. *)
NoFile == [cols |-> <<>>, rows |-> <<>>]

(* target_path.exists() and os.path.getsize(target_path) > 0: a CSV written *)
(* by to_csv always has its header line, also with zero rows.              *)
Exists(file) == file.cols # <<>>

(* pd.read_csv: the frame of a file, with the dtype of every column: object *)
(* ('O') when the column has a text cell or no cell at all, else numeric.   *)
read_csv(file) ==
    [cols |-> file.cols,
     rows |-> file.rows,
     obj  |-> {c \in ToSet(file.cols) :
                  \/ file.rows = <<>>
                  \/ \E i \in DOMAIN file.rows : file.rows[i][c][1] = "s"}]

(* DataFrame.to_csv(index=False): header and rows; the dtypes are not kept. *)
to_csv(df) == [cols |-> df.cols, rows |-> df.rows]

(* df[col] = value: a new column, last in the column order. *)
AddColumn(df, col, value, isObj) ==
    [cols |-> Append(df.cols, col),
     rows |-> [i \in DOMAIN df.rows |->
                 [c \in DOMAIN df.rows[i] \cup {col} |->
                     IF c = col THEN value ELSE df.rows[i][c]]],
     obj  |-> IF isObj THEN df.obj \cup {col} ELSE df.obj]

(* for col in other.columns: if col not in df.columns:                      *)
(*     df[col] = 0 if other[col].dtype != 'O' else ''                       *)
FillValue(other, col) == IF col \in other.obj THEN Empty ELSE Num(0)

RECURSIVE AlignTo(_, _, _)
AlignTo(df, other, k) ==
    IF k > Len(other.cols) THEN df
    ELSE LET col == other.cols[k] IN
         IF col \in ToSet(df.cols)
         THEN AlignTo(df, other, k + 1)
         ELSE AlignTo(AddColumn(df, col, FillValue(other, col), col \in other.obj),
                      other, k + 1)

(* df[columns]: the frame's rows projected on a column list. *)
Project(df, cols) ==
    [i \in DOMAIN df.rows |-> [c \in ToSet(cols) |-> df.rows[i][c]]]

(* Mutant: keep='first'. *)
drop_duplicates_first(rows) ==
    LET F[i \in 0..Len(rows)] ==
            IF i = 0 THEN <<>>
            ELSE IF \E j \in 1..(i - 1) : rows[j]["userid"] = rows[i]["userid"]
                 THEN F[i - 1]
                 ELSE Append(F[i - 1], rows[i])
    IN F[Len(rows)]

(* drop_duplicates(subset=['userid'], keep='last') *)
drop_duplicates(rows) ==
    LET F[i \in 0..Len(rows)] ==
            IF i = 0 THEN <<>>
            ELSE IF \E j \in (i + 1)..Len(rows) : rows[j]["userid"] = rows[i]["userid"]
                 THEN F[i - 1]
                 ELSE Append(F[i - 1], rows[i])
    IN F[Len(rows)]

(* The merge of append_or_create_csv when the target exists and is not      *)
(* empty: union of the columns, concatenation, last row per userid.         *)
(* Line 90-92: the concatenation on the batch's column order and the dedup. *)
Combine(existing_df, new_df) ==
    [cols |-> new_df.cols,
     rows |-> IF "userid" \in ToSet(new_df.cols)
              THEN drop_duplicates(Project(existing_df, new_df.cols)
                                   \o Project(new_df, new_df.cols))
              ELSE Project(existing_df, new_df.cols) \o Project(new_df, new_df.cols)]

(* Mutant: the batch is not given the columns it lacks. *)
AlignBatch_skipped(existing_df, new_df) == Combine(existing_df, new_df)

(* Lines 87-89: the batch gets the columns it lacks. *)
AlignBatch(existing_df, new_df) == Combine(existing_df, AlignTo(new_df, existing_df, 1))

(* Lines 82-86: the existing table is read and gets the columns it lacks. *)
MergeInto(new_df, target) == AlignBatch(AlignTo(read_csv(target), new_df, 1), new_df)

(* The branch of append_or_create_csv for an absent or empty target.        *)
WriteVerbatim(new_df) == to_csv(new_df)

(* append_or_create_csv(new_df, target_path): the new content of the target. *)
(* failed: an exception was raised inside the try block before the target    *)
(* was written; the batch goes to a fallback file and the target is kept.    *)
append_or_create_csv(new_df, target, failed) ==
    IF failed THEN target
    ELSE IF Exists(target) THEN MergeInto(new_df, target)
    ELSE WriteVerbatim(new_df)

----------------------------------------------------------------------------
(* Program constants. *)
FREQ_MODEL_A == 20
FREQ_MODEL_B == 10
BASE_USERID == 2000

(* The pipeline's files and history as one record, so that a handler is an  *)
(* operator from the state and its inputs to the state it leaves.           *)
Cur ==
    [inbox |-> inbox, main |-> main, prep |-> prep, tableA |-> tableA,
     tableB |-> tableB, ctrFile |-> ctrFile, ctr |-> ctr, hist |-> hist]

(* last_retrain_a, last_retrain_b: the time of the model's n-th successful  *)
(* training is modelled by n; 0 is None or a missing key.                   *)
ZeroCounters == [model_a |-> 0, model_b |-> 0, last_retrain_a |-> 0, last_retrain_b |-> 0]

(* process_new_data.load_counters: zeros when the file is missing; json.load *)
(* raises on a corrupt file (the caller models the raise).                   *)
pnd_load_counters(s) == IF s.ctrFile = "ok" THEN s.ctr ELSE ZeroCounters

(* automated_pipeline.load_counters: zeros when the file is missing or      *)
(* cannot be decoded.                                                       *)
ap_load_counters(s) == IF s.ctrFile = "ok" THEN s.ctr ELSE ZeroCounters

(* save_counters: the file holds the record. History: the value written for *)
(* a model whose training has succeeded since the last write.               *)
save_counters(s, counters) ==
    [s EXCEPT !.ctrFile = "ok", !.ctr = counters,
              !.hist.pendA = FALSE, !.hist.pendB = FALSE,
              !.hist.resetA = IF s.hist.pendA THEN counters.model_a ELSE @,
              !.hist.resetB = IF s.hist.pendB THEN counters.model_b ELSE @]

(* The training scripts read their training table with pd.read_csv and fit   *)
(* on it: they exit non-zero when the table is absent or has no row.         *)
TrainingSucceeds(table, ok) == ok /\ Exists(table) /\ table.rows # <<>>

(* df.drop(columns=['review'], errors='ignore') *)
DropColumn(df, col) ==
    [cols |-> SelectSeq(df.cols, LAMBDA c : c # col),
     rows |-> [i \in DOMAIN df.rows |->
                 [c \in DOMAIN df.rows[i] \ {col} |-> df.rows[i][c]]],
     obj  |-> df.obj \ {col}]

(* df[df['review'].notna() & df['review'].str.strip().ne("")] *)
HasReview(row) == row["review"][1] = "s"
WithReviews(df) ==
    [cols |-> df.cols, rows |-> SelectSeq(df.rows, HasReview), obj |-> df.obj]

(* The payloads (feature values) of a frame's rows: the identity of the      *)
(* uploaded records, independent of the userid they are given.               *)
Payloads(rows) == {rows[i]["feat"][2] : i \in DOMAIN rows}

(* split_dataset: the batch in the preprocessed file is merged into the two  *)
(* training tables. Series.str raises on a column that is not of dtype       *)
(* object, which is the dtype read_csv gives a review column with no text.   *)
(* append_or_create_csv returns None whether or not it raised inside; what   *)
(* tells the two apart is its message (line 99), kept as an event; the       *)
(* returned counts are those of the batch in both cases.                     *)
SplitFrame(s, df, mfA, mfB) ==
    IF "review" \notin df.obj
    THEN [raised |-> TRUE, s |-> s, total |-> 0, with_reviews |-> 0, ev |-> <<>>]
    ELSE [raised |-> FALSE,
          ev |-> (IF mfA THEN <<"append_error_a">> ELSE <<>>)
                 \o (IF mfB THEN <<"append_error_b">> ELSE <<>>),
          s |-> [s EXCEPT
                   !.tableA = append_or_create_csv(DropColumn(df, "review"), s.tableA, mfA),
                   !.tableB = append_or_create_csv(WithReviews(df), s.tableB, mfB)],
          total |-> Len(df.rows),
          with_reviews |-> Len(WithReviews(df).rows)]

split_dataset(s, mfA, mfB) == SplitFrame(s, read_csv(s.prep), mfA, mfB)

(* History: a training script has succeeded. *)
Trained(s, m) ==
    IF m = "a" THEN [s EXCEPT !.hist.sinceA = 0, !.hist.trainsA = @ + 1, !.hist.pendA = TRUE]
    ELSE [s EXCEPT !.hist.sinceB = 0, !.hist.trainsB = @ + 1, !.hist.pendB = TRUE]

(* Mutant: the counter is reset once training was issued, whatever its      *)
(* outcome.                                                                  *)
pnd_check_a_reset_on_issue(s, counters, okA) ==
    IF counters.model_a >= FREQ_MODEL_A
    THEN IF Exists(s.tableA)
         THEN IF TrainingSucceeds(s.tableA, okA)
              THEN [s |-> Trained(s, "a"), counters |-> [counters EXCEPT !.model_a = 0],
                    ev |-> <<"train_a", "train_a_ok">>]
              ELSE [s |-> s, counters |-> [counters EXCEPT !.model_a = 0],
                    ev |-> <<"train_a", "train_a_failed">>]
         ELSE [s |-> s, counters |-> counters, ev |-> <<"skip_a">>]
    ELSE [s |-> s, counters |-> counters, ev |-> <<>>]

(* process_new_data, lines 174-183: the check of Model A. *)
pnd_check_a(s, counters, okA) ==
    IF counters.model_a >= FREQ_MODEL_A
    THEN IF Exists(s.tableA)
         THEN IF TrainingSucceeds(s.tableA, okA)
              THEN [s |-> Trained(s, "a"), counters |-> [counters EXCEPT !.model_a = 0],
                    ev |-> <<"train_a", "train_a_ok">>]
              ELSE [s |-> s, counters |-> counters, ev |-> <<"train_a", "train_a_failed">>]
         ELSE [s |-> s, counters |-> counters, ev |-> <<"skip_a">>]
    ELSE [s |-> s, counters |-> counters, ev |-> <<>>]

(* Mutant: Model B is trained at every run, whatever its counter. *)
pnd_check_b_unconditional(s, counters, okB) ==
    IF Exists(s.tableB)
    THEN IF TrainingSucceeds(s.tableB, okB)
         THEN [s |-> Trained(s, "b"), counters |-> [counters EXCEPT !.model_b = 0],
               ev |-> <<"train_b", "train_b_ok">>]
         ELSE [s |-> s, counters |-> counters, ev |-> <<"train_b", "train_b_failed">>]
    ELSE [s |-> s, counters |-> counters, ev |-> <<"skip_b">>]

(* process_new_data, lines 184-194: the check of Model B. *)
pnd_check_b(s, counters, okB) ==
    IF counters.model_b >= FREQ_MODEL_B
    THEN IF Exists(s.tableB)
         THEN IF TrainingSucceeds(s.tableB, okB)
              THEN [s |-> Trained(s, "b"), counters |-> [counters EXCEPT !.model_b = 0],
                    ev |-> <<"train_b", "train_b_ok">>]
              ELSE [s |-> s, counters |-> counters, ev |-> <<"train_b", "train_b_failed">>]
         ELSE [s |-> s, counters |-> counters, ev |-> <<"skip_b">>]
    ELSE [s |-> s, counters |-> counters, ev |-> <<>>]

(* Mutant: the run ends after the prediction script. *)
pnd_refresh_prediction_only == <<"churn_prediction">>

(* process_new_data, lines 199-211: the refresh and the archive copy. *)
pnd_refresh == <<"churn_prediction", "explain_user_all", "explinableAI", "archive">>

(* Lines 196-211: the counters are saved, the refresh and the archive run. *)
pnd_finish(evA, b) ==
    [s |-> save_counters(b.s, b.counters),
     ev |-> <<"split">> \o evA \o b.ev \o <<"save_counters">> \o pnd_refresh,
     raised |-> FALSE]

pnd_after_a(evSplit, a, in) ==
    pnd_finish(evSplit \o <<"counters_updated">> \o a.ev,
               pnd_check_b(a.s, a.counters, in.okB))

(* Lines 168-172: the counters are loaded and the batch is added. *)
pnd_count(sp, in) ==
    pnd_after_a(
        sp.ev,
        pnd_check_a(sp.s,
                    [pnd_load_counters(sp.s) EXCEPT !.model_a = @ + sp.total,
                                                    !.model_b = @ + sp.with_reviews],
                    in.okA),
        in)

pnd_after_split(s, sp, in) ==
    IF sp.raised
    THEN [s |-> s, ev |-> <<"split_raised">>, raised |-> TRUE]
    ELSE IF sp.s.ctrFile = "corrupt"
    THEN [s |-> sp.s, ev |-> <<"split">> \o sp.ev \o <<"load_counters_raised">>,
          raised |-> TRUE]
    ELSE pnd_count(sp, in)

(* process_new_data(): in.okA, in.okB are the outcomes of the training       *)
(* scripts if they are run, in.mfA, in.mfB whether the merge into the table  *)
(* raises. The result says whether an exception left the function.           *)
process_new_data(s, in) ==
    IF ~Exists(s.prep)
    THEN [s |-> s, ev |-> <<>>, raised |-> FALSE]
    ELSE pnd_after_split(s, split_dataset(s, in.mfA, in.mfB), in)

----------------------------------------------------------------------------
(* process_upload.py *)

(* preprocess_dataframe: missing numeric feature cells get the column mean. *)
(* The uploads of this model carry a number in every feature cell, so no     *)
(* cell is filled.                                                          *)
preprocess_dataframe(df) == df

UseridsOf(rows) == {rows[i]["userid"][2] : i \in DOMAIN rows}
MaxOf(S) == CHOOSE x \in S : \A y \in S : y <= x

(* Mutant: a userid column that came with the upload is kept. *)
AssignIds_kept(uploads_df, start) ==
    IF "userid" \in ToSet(uploads_df.cols) THEN uploads_df
    ELSE [cols |-> <<"userid">> \o uploads_df.cols,
          rows |-> [i \in DOMAIN uploads_df.rows |->
                      [c \in ToSet(uploads_df.cols) \cup {"userid"} |->
                          IF c = "userid" THEN Num(start + i - 1)
                          ELSE uploads_df.rows[i][c]]],
          obj  |-> uploads_df.obj]

(* uploads_df.drop(columns=['userid']) when present, then                    *)
(* uploads_df.insert(0, 'userid', range(start, start + len(uploads_df)))     *)
AssignIds(uploads_df, start) ==
    LET rest == SelectSeq(uploads_df.cols, LAMBDA c : c # "userid") IN
    [cols |-> <<"userid">> \o rest,
     rows |-> [i \in DOMAIN uploads_df.rows |->
                 [c \in ToSet(rest) \cup {"userid"} |->
                     IF c = "userid" THEN Num(start + i - 1) ELSE uploads_df.rows[i][c]]],
     obj  |-> uploads_df.obj \ {"userid"}]

(* for col in main_df.columns: if col not in uploads_df.columns:             *)
(*     uploads_df[col] = ''      and then   uploads_df = uploads_df[main_df.columns] *)
RECURSIVE BackFill(_, _, _)
BackFill(df, cols, k) ==
    IF k > Len(cols) THEN df
    ELSE IF cols[k] \in ToSet(df.cols) THEN BackFill(df, cols, k + 1)
    ELSE BackFill(AddColumn(df, cols[k], Empty, TRUE), cols, k + 1)

Reorder(filled, cols) ==
    [cols |-> cols, rows |-> Project(filled, cols), obj |-> filled.obj]
AlignToMain(uploads_df, main_df) ==
    Reorder(BackFill(uploads_df, main_df.cols, 1), main_df.cols)

(* Line 56 *)
last_userid(main_df) ==
    IF "userid" \in ToSet(main_df.cols) THEN MaxOf(UseridsOf(main_df.rows)) ELSE 1999

(* Mutant: the dataset is replaced by the batch. *)
Combined_replacing(main_df, aligned) ==
    [ok |-> TRUE, uploads |-> aligned,
     combined |-> [cols |-> main_df.cols, rows |-> aligned.rows, obj |-> main_df.obj]]

(* Line 72: pd.concat([main_df, uploads_df]) *)
Combined(main_df, aligned) ==
    [ok |-> TRUE, uploads |-> aligned,
     combined |-> [cols |-> main_df.cols, rows |-> main_df.rows \o aligned.rows,
                   obj |-> main_df.obj]]

(* Lines 50-72: an authoritative dataset exists. int(main_df['userid'].max()) *)
(* raises when it has a userid column and no row.                            *)
IngestInto(uploads_df, main_df) ==
    IF "userid" \in ToSet(main_df.cols) /\ main_df.rows = <<>>
    THEN [ok |-> FALSE, uploads |-> uploads_df, combined |-> main_df]
    ELSE IF "userid" \in ToSet(main_df.cols)
    THEN Combined(main_df,
                  AlignToMain(AssignIds(uploads_df, last_userid(main_df) + 1), main_df))
    ELSE Combined(main_df, AssignIds(uploads_df, last_userid(main_df) + 1))

(* Lines 73-79: no authoritative dataset yet. *)
FirstIngest(withIds) == [ok |-> TRUE, uploads |-> withIds, combined |-> withIds]

(* Lines 48-79: the batch with its fresh userids, and the combined dataset.  *)
IngestFrames(s) ==
    IF Exists(s.main)
    THEN IngestInto(read_csv(s.inbox), read_csv(s.main))
    ELSE FirstIngest(AssignIds(read_csv(s.inbox), BASE_USERID))

(* History: the uploaded records that enter the authoritative dataset for    *)
(* the first time count once toward each model's next retrain.               *)
Ingested(s, oldMain, uploads_df) ==
    LET fresh == {i \in DOMAIN uploads_df.rows :
                     uploads_df.rows[i]["feat"][2] \notin Payloads(oldMain.rows)}
    IN [s EXCEPT !.hist.sinceA = @ + Cardinality(fresh),
                 !.hist.sinceB = @ + Cardinality({i \in fresh : HasReview(uploads_df.rows[i])})]

(* Mutant: an exception of the downstream processing ends the cycle before  *)
(* the inbox is cleared.                                                    *)
puu_finish_fatal_downstream(down) ==
    IF down.raised
    THEN [s |-> down.s,
          ev |-> <<"save_main", "save_uploads", "save_prep">> \o down.ev
                 \o <<"ingest_error">>,
          raised |-> FALSE]
    ELSE [s |-> [down.s EXCEPT !.inbox = NoFile],
          ev |-> <<"save_main", "save_uploads", "save_prep">> \o down.ev
                 \o <<"clear_inbox", "ingested">>,
          raised |-> FALSE]

(* Lines 127-140: the inbox is cleared and the count is returned. *)
puu_finish(down) ==
    [s |-> [down.s EXCEPT !.inbox = NoFile],
     ev |-> <<"save_main", "save_uploads", "save_prep">> \o down.ev
            \o <<"clear_inbox", "ingested">>,
     raised |-> FALSE]

(* Mutant: the downstream processing is invoked before the preprocessed copy *)
(* of the batch is written.                                                 *)
puu_after_main_downstream_first(s1, uploads_df, in) ==
    LET down == process_new_data([s1 EXCEPT !.inbox = to_csv(uploads_df)], in)
    IN [s |-> [down.s EXCEPT !.prep = to_csv(preprocess_dataframe(uploads_df)),
                             !.inbox = NoFile],
        ev |-> <<"save_main", "save_uploads">> \o down.ev
               \o <<"save_prep", "clear_inbox", "ingested">>,
        raised |-> FALSE]

(* Lines 96-125 *)
puu_after_main(s1, uploads_df, in) ==
    IF in.fail = "save_uploads"
    THEN [s |-> s1, ev |-> <<"save_main", "ingest_error">>, raised |-> FALSE]
    ELSE IF in.fail = "save_prep"
    THEN [s |-> [s1 EXCEPT !.inbox = to_csv(uploads_df)],
          ev |-> <<"save_main", "save_uploads", "ingest_error">>, raised |-> FALSE]
    ELSE puu_finish(
            process_new_data(
                [s1 EXCEPT !.inbox = to_csv(uploads_df),
                           !.prep = to_csv(preprocess_dataframe(uploads_df))],
                in))

(* Lines 87-95 *)
puu_persist(s, fr, in) ==
    IF ~fr.ok \/ in.fail = "save_main"
    THEN [s |-> s, ev |-> <<"ingest_error">>, raised |-> FALSE]
    ELSE puu_after_main(Ingested([s EXCEPT !.main = to_csv(fr.combined)], s.main, fr.uploads),
                        fr.uploads, in)

(* Mutant: the inbox is not tested for rows. *)
process_user_uploads_unchecked(s, in) == puu_persist(s, IngestFrames(s), in)

(* process_user_uploads(). in.fail names the side effect that raises, or is  *)
(* "none": "save_main" (line 93), "save_uploads" (line 97), "save_prep"      *)
(* (line 109); an exception there is caught at line 142 and 0 is returned.   *)
(* An exception of process_new_data is caught at line 122.                   *)
process_user_uploads(s, in) ==
    IF ~Exists(s.inbox) THEN [s |-> s, ev |-> <<>>, raised |-> FALSE]
    ELSE IF s.inbox.rows = <<>> THEN [s |-> s, ev |-> <<"nothing_to_do">>, raised |-> FALSE]
    ELSE puu_persist(s, IngestFrames(s), in)

----------------------------------------------------------------------------
(* automated_pipeline.py *)

cfnd_finish(evUp, nd) ==
    [s |-> nd.s, ev |-> evUp \o <<"loop_process_new_data">> \o nd.ev, raised |-> FALSE]

cfnd_rerun(up, in2) == cfnd_finish(up.ev, process_new_data(up.s, in2))

(* check_for_new_data(): process_upload and then process_new_data, each run  *)
(* as a script; the second is not run when the first exits non-zero, which   *)
(* process_upload.py does not do, since it catches every exception.          *)
check_for_new_data(s, in1, in2) ==
    IF ~Exists(s.inbox) THEN [s |-> s, ev |-> <<>>, raised |-> FALSE]
    ELSE cfnd_rerun(process_user_uploads(s, in1), in2)

(* retrain_model, lines 98-99: the time of this training, the h.trainsA-th   *)
(* (h.trainsB-th) successful one, is noted and the counter is reset.         *)
StampAndReset(counters, m, h) ==
    IF m = "a" THEN [counters EXCEPT !.last_retrain_a = h.trainsA, !.model_a = 0]
    ELSE [counters EXCEPT !.last_retrain_b = h.trainsB, !.model_b = 0]

(* Mutant: a failed training resets the model's counter. *)
retrain_model_giving_up(s, m, ok, predOk) ==
    LET table == IF m = "a" THEN s.tableA ELSE s.tableB
        tag == IF m = "a" THEN "train_a" ELSE "train_b"
        tagOk == IF m = "a" THEN "train_a_ok" ELSE "train_b_ok"
        tagFailed == IF m = "a" THEN "train_a_failed" ELSE "train_b_failed"
        counters == ap_load_counters(s)
        reset == IF m = "a" THEN [counters EXCEPT !.model_a = 0]
                 ELSE [counters EXCEPT !.model_b = 0]
    IN IF TrainingSucceeds(table, ok)
       THEN [s |-> save_counters(Trained(s, m), reset),
             ev |-> <<tag, tagOk, "save_counters", "churn_prediction">>
                    \o (IF predOk THEN <<"explainableAI">> ELSE <<>>)]
       ELSE [s |-> save_counters(s, reset), ev |-> <<tag, tagFailed>>]

(* retrain_model(model_name): m is "a" or "b"; ok is the training script's   *)
(* outcome, predOk that of churn_prediction.                                 *)
retrain_model(s, m, ok, predOk) ==
    LET table == IF m = "a" THEN s.tableA ELSE s.tableB
        tag == IF m = "a" THEN "train_a" ELSE "train_b"
        tagOk == IF m = "a" THEN "train_a_ok" ELSE "train_b_ok"
        tagFailed == IF m = "a" THEN "train_a_failed" ELSE "train_b_failed"
    IN IF TrainingSucceeds(table, ok)
       THEN LET counters == ap_load_counters(s)
                reset == StampAndReset(counters, m, Trained(s, m).hist)
            IN [s |-> save_counters(Trained(s, m), reset),
                ev |-> <<tag, tagOk, "save_counters", "churn_prediction">>
                       \o (IF predOk THEN <<"explainableAI">> ELSE <<>>)]
       ELSE [s |-> s, ev |-> <<tag, tagFailed>>]

crc_finish(evA, b) ==
    [s |-> b.s, ev |-> <<"check_retrain">> \o evA \o b.ev, raised |-> FALSE]

crc_b(counters, a, in) ==
    crc_finish(a.ev,
               IF counters.model_b >= FREQ_MODEL_B
               THEN retrain_model(a.s, "b", in.okB, in.predB)
               ELSE [s |-> a.s, ev |-> <<>>])

crc_a(s, counters, in) ==
    crc_b(counters,
          IF counters.model_a >= FREQ_MODEL_A
          THEN retrain_model(s, "a", in.okA, in.predA)
          ELSE [s |-> s, ev |-> <<>>],
          in)

(* check_retrain_conditions(): both thresholds are tested on the counters    *)
(* loaded at the start.                                                      *)
check_retrain_conditions(s, in) == crc_a(s, ap_load_counters(s), in)

----------------------------------------------------------------------------
(* The prediction files before any training: absent. *)
NoPredictions == [a |-> NoFile, b |-> NoFile]

(* The scheduling loop between two jobs: in time.sleep(1), no job in flight, *)
(* no training script running.                                               *)
Idle ==
    [job |-> "none", pc |-> "none", m |-> "none", running |-> [a |-> 0, b |-> 0],
     counters |-> ZeroCounters, towrite |-> ZeroCounters]

(* No run of process_new_data.py beside the loop. *)
NotRunning ==
    [pc |-> "none", counters |-> ZeroCounters, total |-> 0, with_reviews |-> 0,
     resetA |-> FALSE, resetB |-> FALSE]

----------------------------------------------------------------------------
(* The pipeline as a state machine: uploads arrive in the inbox, and the     *)
(* entry points run one at a time, each to completion.                       *)
MaxSteps == 5
Batches == {<<10, 0, FALSE>>, <<10, 1, TRUE>>, <<11, 11, FALSE>>}

(* What goes wrong in a handler run, at most one thing per run: a side       *)
(* effect of the ingestor raises, a merge into a training table raises, a    *)
(* training script or the prediction script exits non-zero.                  *)
UploadFaults == {"none", "save_main", "save_uploads", "save_prep",
                 "merge_a", "merge_b", "train_a", "train_b"}
NewDataFaults == {"none", "merge_a", "merge_b", "train_a", "train_b"}
RetrainFaults == {"none", "train_a", "train_b", "pred_a", "pred_b"}
Inputs(f) ==
    [fail |-> IF f \in {"save_main", "save_uploads", "save_prep"} THEN f ELSE "none",
     okA |-> f # "train_a", okB |-> f # "train_b",
     mfA |-> f = "merge_a", mfB |-> f = "merge_b",
     predA |-> f # "pred_a", predB |-> f # "pred_b"]

Init ==
    /\ inbox = NoFile
    /\ main = NoFile
    /\ prep = NoFile
    /\ tableA = NoFile
    /\ tableB = NoFile
    /\ ctrFile = "missing"
    /\ ctr = ZeroCounters
    /\ ev = <<>>
    /\ hist = [uploaded |-> 0, sinceA |-> 0, sinceB |-> 0, trainsA |-> 0, trainsB |-> 0,
               pendA |-> FALSE, pendB |-> FALSE, resetA |-> 0, resetB |-> 0,
               steps |-> 0, faulted |-> FALSE]
    /\ m_target = NoFile
    /\ m_before = NoFile
    /\ m_batch = NoFile
    /\ m_count = 0
    /\ m_fallback = <<>>
    /\ m_clock = 0
    /\ m_raised = FALSE
    /\ m_redirected = <<>>
    /\ loop = "running"
    /\ r_pred = NoFile
    /\ r_expl = <<>>
    /\ r_charts = <<>>
    /\ r_backup = {}
    /\ r_phase = "idle"
    /\ r_pc = 1
    /\ r_map = <<>>
    /\ r_todo = {}
    /\ r_hist = [expl0 |-> {}, charts0 |-> {}, mutated |-> {}, backupAtFirst |-> {},
                 used |-> {}, reused |-> {}]
    /\ preds = NoPredictions
    /\ sched = Idle
    /\ archive = <<>>
    /\ r_runs = 0
    /\ ext = NotRunning

(* The files a handler run leaves. *)
LeaveFiles(r) ==
    /\ inbox' = r.s.inbox
    /\ main' = r.s.main
    /\ prep' = r.s.prep
    /\ tableA' = r.s.tableA
    /\ tableB' = r.s.tableB
    /\ ctrFile' = r.s.ctrFile
    /\ ctr' = r.s.ctr
    /\ hist' = [r.s.hist EXCEPT !.steps = @ + 1]
    /\ ev' = r.ev

(* The state a handler run leaves. *)
Leave(r) == LeaveFiles(r) /\ UNCHANGED <<others, loop>>

(* The front end writes a batch of n rows, the first r of them with a review, *)
(* to the inbox; withIds: the rows come with a userid column of their own.    *)
UploadBatch(n, r, withIds) ==
    /\ ~Exists(inbox)
    /\ hist.steps < MaxSteps
    /\ inbox' =
         [cols |-> (IF withIds THEN <<"userid">> ELSE <<>>) \o <<"feat", "review">>,
          rows |-> [i \in 1..n |->
                      [c \in (IF withIds THEN {"userid"} ELSE {}) \cup {"feat", "review"} |->
                          IF c = "userid" THEN Num(BASE_USERID)
                          ELSE IF c = "feat" THEN Num(hist.uploaded + i)
                          ELSE IF i <= r THEN Text(1) ELSE Empty]]]
    /\ hist' = [hist EXCEPT !.uploaded = @ + n, !.steps = @ + 1]
    /\ ev' = <<"upload">>
    /\ UNCHANGED <<main, prep, tableA, tableB, ctrFile, ctr, others, loop>>

(* The counter file is lost or damaged from outside the pipeline, at most    *)
(* once in a behaviour.                                                      *)
CounterFileFault(kind) ==
    /\ hist.steps < MaxSteps
    /\ ~hist.faulted
    /\ ctrFile # kind
    /\ ctrFile' = kind
    /\ hist' = [hist EXCEPT !.faulted = TRUE, !.steps = @ + 1]
    /\ ev' = <<"counter_file_fault">>
    /\ UNCHANGED <<inbox, main, prep, tableA, tableB, ctr, others, loop>>

(* python scripts/process_upload.py *)
ProcessUpload(in) ==
    /\ hist.steps < MaxSteps
    /\ Leave(process_user_uploads(Cur, in))

(* python scripts/process_new_data.py *)
ProcessNewData(in) ==
    /\ hist.steps < MaxSteps
    /\ Leave(process_new_data(Cur, in))

(* The loop's check_for_new_data job. *)
CheckForNewData(in1, in2) ==
    /\ hist.steps < MaxSteps
    /\ Leave(check_for_new_data(Cur, in1, in2))

(* The loop's check_retrain_conditions job. *)
CheckRetrainConditions(in) ==
    /\ hist.steps < MaxSteps
    /\ Leave(check_retrain_conditions(Cur, in))

Next ==
    \/ \E b \in Batches : UploadBatch(b[1], b[2], b[3])
    \/ \E k \in {"missing", "corrupt"} : CounterFileFault(k)
    \/ \E f \in UploadFaults : ProcessUpload(Inputs(f))
    \/ \E f \in NewDataFaults : ProcessNewData(Inputs(f))
    \/ \E f \in UploadFaults : CheckForNewData(Inputs(f), Inputs(f))
    \/ \E f \in RetrainFaults : CheckRetrainConditions(Inputs(f))

Spec == Init /\ [][Next]_vars

----------------------------------------------------------------------------
(* MergeSpec: a training table under a sequence of merges of batches.       *)
MaxMerges == 2
Keys == {1, 2}
Versions == {0, 1}
RowCounts == 0..2
ColumnLists == {<<"userid", "a", "b">>, <<"userid", "b", "c">>, <<"userid", "b">>}

(* A batch row of user k in version v: a and c are numeric features, b is a *)
(* free text that is empty in version 0.                                    *)
BatchRow(k, v, cols) ==
    [c \in ToSet(cols) |->
        IF c = "userid" THEN Num(k)
        ELSE IF c = "b" THEN (IF v = 0 THEN Empty ELSE Text(v))
        ELSE Num(v)]

BatchFiles ==
    {[cols |-> cl, rows |-> [i \in 1..n |-> BatchRow(ks[i], vs[i], cl)]] :
        <<cl, n, ks, vs>> \in
            UNION {{<<cl, n, ks, vs>> : ks \in [1..n -> Keys], vs \in [1..n -> Versions]} :
                      <<cl, n>> \in ColumnLists \X RowCounts}}

MergeInit == Init

MergeBatch(b) ==
    /\ m_count < MaxMerges
    /\ m_before' = m_target
    /\ m_batch' = b
    /\ m_target' = append_or_create_csv(read_csv(b), m_target, FALSE)
    /\ m_count' = m_count + 1
    /\ UNCHANGED <<pvars, fvars, rvars, xvars, loop>>

MergeNext == \E b \in BatchFiles : MergeBatch(b)

MergeSpec == MergeInit /\ [][MergeNext]_vars

----------------------------------------------------------------------------
(* FallbackSpec: a training table under merges that may raise, by either    *)
(* merge routine of the repository.                                         *)

(* split-cleaned-dataset.py, save_append_merge(new_df, path): the new       *)
(* content of the table. raised: an exception inside the try block (lines   *)
(* 35-47) before the table was written, or, for an absent table, in the     *)
(* write of line 51, which then leaves the script.                          *)
save_append_merge(new_df, target, raised) ==
    IF Exists(target)
    THEN IF raised THEN to_csv(new_df) ELSE MergeInto(new_df, target)
    ELSE IF raised THEN target ELSE to_csv(new_df)

(* The fallback files after a call of append_or_create_csv: line 97-98, the *)
(* file named <stem>_append_error_<int(time.time())>.csv holds the batch.   *)
WriteFallback(files, now, new_df) ==
    [t \in DOMAIN files \cup {now} |-> IF t = now THEN to_csv(new_df) ELSE files[t]]

MergeRoutines == {"append_or_create_csv", "save_append_merge"}

FallbackBatches ==
    {[cols |-> <<"userid", "b">>, rows |-> <<BatchRow(k, v, <<"userid", "b">>)>>] :
        <<k, v>> \in Keys \X Versions}

(* One call of a merge routine on the table; dt: the seconds passed since   *)
(* the previous call. The exceptions followed here are those of a merge     *)
(* into an existing table.                                                  *)
MergeCall(b, routine, raised, dt) ==
    /\ m_count < MaxMerges
    /\ raised => Exists(m_target)
    /\ m_clock' = m_clock + dt
    /\ m_before' = m_target
    /\ m_batch' = b
    /\ m_raised' = raised
    /\ m_redirected' = IF raised THEN Append(m_redirected, b) ELSE m_redirected
    /\ m_target' = IF routine = "append_or_create_csv"
                   THEN append_or_create_csv(read_csv(b), m_target, raised)
                   ELSE save_append_merge(read_csv(b), m_target, raised)
    /\ m_fallback' = IF raised /\ routine = "append_or_create_csv"
                     THEN WriteFallback(m_fallback, m_clock', read_csv(b))
                     ELSE m_fallback
    /\ m_count' = m_count + 1
    /\ UNCHANGED <<pvars, rvars, xvars, loop>>

FallbackNext ==
    \E b \in FallbackBatches, routine \in MergeRoutines, raised \in BOOLEAN, dt \in {0, 1} :
        MergeCall(b, routine, raised, dt)

FallbackSpec == Init /\ [][FallbackNext]_vars

----------------------------------------------------------------------------
(* LoopSpec: automated_pipeline.main. The two jobs are run by               *)
(* schedule.run_pending() inside one try statement that encloses the while  *)
(* loop (lines 136-145): an exception that leaves a job leaves the loop.    *)
(* run_script catches subprocess.CalledProcessError only, load_counters     *)
(* json.JSONDecodeError only, save_counters nothing.                        *)

(* What can raise in a job besides a script that exits non-zero: the        *)
(* interpreter cannot be launched (subprocess.run raises OSError), the      *)
(* counter file cannot be opened for reading, or for writing.               *)
LoopFaults == {"none", "unlaunchable", "unreadable", "unwritable"}

Escaped(s, events) == [s |-> s, ev |-> events, escaped |-> TRUE]
Returned(r) == [s |-> r.s, ev |-> r.ev, escaped |-> FALSE]

(* check_for_new_data as a job: its first run_script raises when the         *)
(* interpreter cannot be launched.                                           *)
job_check_for_new_data(s, in, fault) ==
    IF Exists(s.inbox) /\ fault = "unlaunchable"
    THEN Escaped(s, <<"process_upload_unlaunchable">>)
    ELSE Returned(check_for_new_data(s, in, in))

(* retrain_model as called by the job, for the first model at its threshold: *)
(* run_script raises (line 95), or save_counters raises after a successful   *)
(* training (line 100).                                                      *)
job_retrain(s, m, in, fault) ==
    LET table == IF m = "a" THEN s.tableA ELSE s.tableB
        ok == IF m = "a" THEN in.okA ELSE in.okB
        tag == IF m = "a" THEN "train_a" ELSE "train_b"
        tagOk == IF m = "a" THEN "train_a_ok" ELSE "train_b_ok"
    IN IF fault = "unlaunchable"
       THEN Escaped(s, <<"check_retrain", tag, "train_unlaunchable">>)
       ELSE IF fault = "unwritable" /\ TrainingSucceeds(table, ok)
       THEN Escaped(Trained(s, m), <<"check_retrain", tag, tagOk, "save_counters_raised">>)
       ELSE Returned(check_retrain_conditions(s, in))

(* check_retrain_conditions as a job. *)
job_check_retrain_conditions(s, in, fault) ==
    IF fault = "unreadable" /\ s.ctrFile # "missing"
    THEN Escaped(s, <<"check_retrain", "load_counters_raised">>)
    ELSE IF ap_load_counters(s).model_a >= FREQ_MODEL_A THEN job_retrain(s, "a", in, fault)
    ELSE IF ap_load_counters(s).model_b >= FREQ_MODEL_B THEN job_retrain(s, "b", in, fault)
    ELSE Returned(check_retrain_conditions(s, in))

(* Lines 136-145: a job's exception is caught outside the while loop. *)
RunJob(r) ==
    /\ loop = "running"
    /\ hist.steps < MaxSteps
    /\ LeaveFiles(r)
    /\ loop' = IF r.escaped THEN "ended" ELSE "running"
    /\ UNCHANGED others

JobCheckForNewData(in, fault) == RunJob(job_check_for_new_data(Cur, in, fault))

JobCheckRetrainConditions(in, fault) == RunJob(job_check_retrain_conditions(Cur, in, fault))

(* Ctrl+C: KeyboardInterrupt, line 140. *)
StopSignal ==
    /\ loop = "running"
    /\ loop' = "interrupted"
    /\ UNCHANGED <<pvars, others>>

LoopNext ==
    \/ \E b \in Batches : UploadBatch(b[1], b[2], b[3])
    \/ \E f \in {"none", "train_a", "train_b"}, g \in LoopFaults :
          JobCheckForNewData(Inputs(f), g)
    \/ \E f \in {"none", "train_a", "train_b"}, g \in LoopFaults :
          JobCheckRetrainConditions(Inputs(f), g)
    \/ StopSignal

LoopSpec == Init /\ [][LoopNext]_vars

----------------------------------------------------------------------------
(* IngestSpec: the Upload Ingestor under uploads of every shape: a file     *)
(* with a header and no row, small batches, batches that come with userids, *)
(* and a batch that takes Model B over its threshold.                       *)
IngestBatches == {<<0, 0, FALSE>>, <<2, 0, FALSE>>, <<2, 1, TRUE>>, <<11, 11, FALSE>>}

IngestNext ==
    \/ \E b \in IngestBatches : UploadBatch(b[1], b[2], b[3])
    \/ CounterFileFault("corrupt")
    \/ \E f \in UploadFaults : ProcessUpload(Inputs(f))
    \/ \E f \in {"none", "save_prep"} : CheckForNewData(Inputs(f), Inputs(f))

IngestSpec == Init /\ [][IngestNext]_vars

----------------------------------------------------------------------------
(* ArchiveSpec: runs of the ingestor with the archive directory and the     *)
(* clock that names its files.                                              *)

(* shutil.copy(src, dst): dst holds the content of src, whether or not a    *)
(* file of that name existed.                                               *)
shutil_copy(files, name, content) ==
    [t \in DOMAIN files \cup {name} |-> IF t = name THEN content ELSE files[t]]

(* process_new_data lines 208-210: the files of datasets/archived_uploads   *)
(* after a run that did events and left the preprocessed file prepFile;     *)
(* now is int(time.time()) at line 208.                                     *)
Archived(files, now, prepFile, events) ==
    IF "archive" \in ToSet(events) THEN shutil_copy(files, now, prepFile) ELSE files

(* A run of an entry point; dt: the seconds between the archive copy of the *)
(* previous run and that of this one.                                       *)
ArchiveRun(r, dt) ==
    /\ hist.steps < MaxSteps
    /\ LeaveFiles(r)
    /\ m_clock' = m_clock + dt
    /\ archive' = Archived(archive, m_clock + dt, r.s.prep, r.ev)
    /\ UNCHANGED <<mvars, m_fallback, m_raised, m_redirected, rvars, preds, sched, r_runs,
                   ext, loop>>

ArchProcessUpload(dt) == ArchiveRun(process_user_uploads(Cur, Inputs("none")), dt)

ArchProcessNewData(dt) == ArchiveRun(process_new_data(Cur, Inputs("none")), dt)

ArchiveBatches == {<<1, 1, FALSE>>, <<2, 1, FALSE>>}

ArchiveNext ==
    \/ \E b \in ArchiveBatches : UploadBatch(b[1], b[2], b[3])
    \/ \E dt \in {0, 1} : ArchProcessUpload(dt)
    \/ \E dt \in {0, 1} : ArchProcessNewData(dt)

ArchiveSpec == Init /\ [][ArchiveNext]_vars

----------------------------------------------------------------------------
(* SchedSpec: automated_pipeline.main step by step. check_retrain_conditions *)
(* and retrain_model are followed statement by statement, a training script  *)
(* from its launch to its exit and save_counters from open(..., 'w') to the  *)
(* end of json.dump; check_for_new_data script by script. The stop signal    *)
(* can arrive between any two steps.                                         *)

(* Mutant: a job is started while another is in flight. *)
LoopIsFree_always(sc) == TRUE

(* Lines 137-139 and 55: schedule.run_pending() runs the due jobs one after  *)
(* the other in the thread of the loop, and subprocess.run returns when the  *)
(* script has exited: a job starts when no job is in flight.                 *)
LoopIsFree(sc) == sc.job = "none"

(* Lines 115-122: after the retrain of Model A the test of Model B, after    *)
(* that of Model B the job returns.                                          *)
AfterModel(sc) ==
    IF sc.m = "a" THEN [sc EXCEPT !.pc = "test", !.m = "b"]
    ELSE [sc EXCEPT !.job = "none", !.pc = "none", !.m = "none"]

(* Line 112: counters = load_counters() *)
SchedStartRetrainCheck ==
    /\ loop = "running"
    /\ LoopIsFree(sched)
    /\ sched' = [sched EXCEPT !.job = "check_retrain", !.pc = "test", !.m = "a",
                              !.counters = ap_load_counters(Cur)]
    /\ ev' = <<"check_retrain">>
    /\ UNCHANGED <<inbox, main, prep, tableA, tableB, ctrFile, ctr, hist, mvars, fvars,
                   rvars, preds, yvars, loop>>

(* Lines 115 and 120, and lines 91-95: the threshold test on the counters    *)
(* loaded at line 112, and the launch of the training script.                *)
SchedTest ==
    /\ loop = "running"
    /\ sched.job = "check_retrain"
    /\ sched.pc = "test"
    /\ IF (sched.m = "a" /\ sched.counters.model_a >= FREQ_MODEL_A)
          \/ (sched.m = "b" /\ sched.counters.model_b >= FREQ_MODEL_B)
       THEN /\ sched' = [sched EXCEPT !.pc = "training", !.running[sched.m] = @ + 1]
            /\ ev' = Append(ev, IF sched.m = "a" THEN "train_a" ELSE "train_b")
       ELSE /\ sched' = AfterModel(sched)
            /\ ev' = ev
    /\ UNCHANGED <<inbox, main, prep, tableA, tableB, ctrFile, ctr, hist, mvars, fvars,
                   rvars, preds, yvars, loop>>

(* Line 95: the training script exits and run_script returns. *)
SchedTrainingEnds(ok) ==
    /\ loop = "running"
    /\ sched.pc = "training"
    /\ IF TrainingSucceeds(IF sched.m = "a" THEN tableA ELSE tableB, ok)
       THEN /\ hist' = Trained(Cur, sched.m).hist
            /\ ev' = Append(ev, IF sched.m = "a" THEN "train_a_ok" ELSE "train_b_ok")
            /\ sched' = [sched EXCEPT !.running[sched.m] = @ - 1, !.pc = "open_counters"]
       ELSE /\ hist' = hist
            /\ ev' = Append(ev, IF sched.m = "a" THEN "train_a_failed" ELSE "train_b_failed")
            /\ sched' = AfterModel([sched EXCEPT !.running[sched.m] = @ - 1])
    /\ UNCHANGED <<inbox, main, prep, tableA, tableB, ctrFile, ctr, mvars, fvars, rvars,
                   preds, yvars, loop>>

(* Lines 97-99 and line 47: the record is loaded, stamped and reset, and     *)
(* open(COUNTER_FILE, 'w') truncates the counter file to size zero.          *)
SchedSaveOpen ==
    /\ loop = "running"
    /\ sched.pc = "open_counters"
    /\ sched' = [sched EXCEPT !.pc = "dump_counters",
                              !.towrite = StampAndReset(ap_load_counters(Cur), sched.m, hist)]
    /\ ctrFile' = "corrupt"
    /\ ev' = Append(ev, "open_counters")
    /\ UNCHANGED <<inbox, main, prep, tableA, tableB, ctr, hist, mvars, fvars, rvars,
                   preds, yvars, loop>>

(* Line 48: json.dump has written the record and the file is closed. *)
SchedSaveDump ==
    /\ loop = "running"
    /\ sched.pc = "dump_counters"
    /\ sched' = [sched EXCEPT !.pc = "refresh"]
    /\ ctrFile' = save_counters(Cur, sched.towrite).ctrFile
    /\ ctr' = save_counters(Cur, sched.towrite).ctr
    /\ hist' = save_counters(Cur, sched.towrite).hist
    /\ ev' = Append(ev, "save_counters")
    /\ UNCHANGED <<inbox, main, prep, tableA, tableB, mvars, fvars, rvars, preds, yvars, loop>>

(* Lines 103-106: churn_prediction and, when it succeeded, explainableAI. *)
SchedRefresh(predOk) ==
    /\ loop = "running"
    /\ sched.pc = "refresh"
    /\ sched' = AfterModel(sched)
    /\ ev' = ev \o <<"churn_prediction">> \o (IF predOk THEN <<"explainableAI">> ELSE <<>>)
    /\ UNCHANGED <<inbox, main, prep, tableA, tableB, ctrFile, ctr, hist, mvars, fvars,
                   rvars, preds, yvars, loop>>

(* Lines 72-78: the inbox has content and process_upload.py is run. *)
SchedStartNewData(in) ==
    /\ loop = "running"
    /\ LoopIsFree(sched)
    /\ Exists(inbox)
    /\ hist.steps < MaxSteps
    /\ LeaveFiles(process_user_uploads(Cur, in))
    /\ sched' = [sched EXCEPT !.job = "check_for_new_data", !.pc = "second_script"]
    /\ UNCHANGED <<mvars, fvars, rvars, preds, yvars, loop>>

(* Lines 83-87: process_new_data.py is run and the job returns. *)
SchedSecondScript(in) ==
    /\ loop = "running"
    /\ sched.pc = "second_script"
    /\ LeaveFiles(cfnd_finish(ev, process_new_data(Cur, in)))
    /\ sched' = [sched EXCEPT !.job = "none", !.pc = "none"]
    /\ UNCHANGED <<mvars, fvars, rvars, preds, yvars, loop>>

(* Ctrl+C: KeyboardInterrupt is raised in the thread of the loop wherever it *)
(* is, also inside a job; subprocess.run kills the script it waits for and   *)
(* re-raises; the exception is caught outside the while loop (line 140).     *)
SchedStop ==
    /\ loop = "running"
    /\ loop' = "interrupted"
    /\ sched' = [sched EXCEPT !.running = [a |-> 0, b |-> 0]]
    /\ UNCHANGED <<pvars, mvars, fvars, rvars, preds, yvars>>

SchedBatches == {<<11, 11, FALSE>>, <<10, 1, TRUE>>}

SchedNext ==
    \/ \E b \in SchedBatches : UploadBatch(b[1], b[2], b[3])
    \/ SchedStartRetrainCheck
    \/ SchedTest
    \/ \E ok \in BOOLEAN : SchedTrainingEnds(ok)
    \/ SchedSaveOpen
    \/ SchedSaveDump
    \/ \E predOk \in BOOLEAN : SchedRefresh(predOk)
    \/ \E f \in {"none", "train_a", "train_b"} : SchedStartNewData(Inputs(f))
    \/ \E f \in {"none", "train_a", "train_b"} : SchedSecondScript(Inputs(f))
    \/ SchedStop

SchedSpec == Init /\ [][SchedNext]_vars

----------------------------------------------------------------------------
(* RaceSpec: the scheduling loop of SchedSpec and, beside it, a run of       *)
(* process_new_data.py started from outside the loop (the script has a       *)
(* __main__ entry, lines 213-215). The two are separate processes that share *)
(* the files; nothing in either takes a lock. The run is followed from one   *)
(* access of the counter file to the next; ext holds its position, the       *)
(* record it has in memory (counters), the counts of its batch and whether   *)
(* it has reset a counter itself. ev stays the log of the loop's job.        *)

(* Lines 150-172: the preprocessed file is there, split_dataset merges it    *)
(* into the training tables, the counters are loaded and the batch is added  *)
(* to the record in memory. An exception of split_dataset or of json.load    *)
(* ends the process.                                                         *)
ExtLoad ==
    /\ ext.pc = "none"
    /\ Exists(prep)
    /\ hist.steps < MaxSteps
    /\ LET sp == split_dataset(Cur, FALSE, FALSE)
       IN /\ tableA' = sp.s.tableA
          /\ tableB' = sp.s.tableB
          /\ IF sp.raised \/ ctrFile = "corrupt"
             THEN ext' = NotRunning
             ELSE ext' = [pc |-> "check_a",
                          counters |-> [pnd_load_counters(Cur) EXCEPT
                                          !.model_a = @ + sp.total,
                                          !.model_b = @ + sp.with_reviews],
                          total |-> sp.total, with_reviews |-> sp.with_reviews,
                          resetA |-> FALSE, resetB |-> FALSE]
    /\ hist' = [hist EXCEPT !.steps = @ + 1]
    /\ UNCHANGED <<ev, inbox, main, prep, ctrFile, ctr, mvars, fvars, rvars, preds, sched,
                   archive, r_runs, loop>>

(* Lines 174-182: the check of Model A on the record in memory. *)
ExtCheckA(okA) ==
    /\ ext.pc = "check_a"
    /\ LET a == pnd_check_a(Cur, ext.counters, okA)
       IN /\ hist' = a.s.hist
          /\ ext' = [ext EXCEPT !.pc = "check_b", !.counters = a.counters,
                                !.resetA = "train_a_ok" \in ToSet(a.ev)]
    /\ UNCHANGED <<ev, inbox, main, prep, tableA, tableB, ctrFile, ctr, mvars, fvars, rvars,
                   preds, sched, archive, r_runs, loop>>

(* Lines 184-194: the check of Model B on the record in memory. *)
ExtCheckB(okB) ==
    /\ ext.pc = "check_b"
    /\ LET b == pnd_check_b(Cur, ext.counters, okB)
       IN /\ hist' = b.s.hist
          /\ ext' = [ext EXCEPT !.pc = "save", !.counters = b.counters,
                                !.resetB = "train_b_ok" \in ToSet(b.ev)]
    /\ UNCHANGED <<ev, inbox, main, prep, tableA, tableB, ctrFile, ctr, mvars, fvars, rvars,
                   preds, sched, archive, r_runs, loop>>

(* Line 197: save_counters(counters) writes the record in memory. *)
ExtSave ==
    /\ ext.pc = "save"
    /\ ctrFile' = save_counters(Cur, ext.counters).ctrFile
    /\ ctr' = save_counters(Cur, ext.counters).ctr
    /\ hist' = save_counters(Cur, ext.counters).hist
    /\ ext' = [ext EXCEPT !.pc = "refresh"]
    /\ UNCHANGED <<ev, inbox, main, prep, tableA, tableB, mvars, fvars, rvars, preds, sched,
                   archive, r_runs, loop>>

(* Lines 199-211: the refresh scripts and the archive copy; the process      *)
(* exits.                                                                    *)
ExtRefresh ==
    /\ ext.pc = "refresh"
    /\ archive' = Archived(archive, m_clock, prep, pnd_refresh)
    /\ ext' = NotRunning
    /\ UNCHANGED <<ev, inbox, main, prep, tableA, tableB, ctrFile, ctr, hist, mvars, fvars,
                   rvars, preds, sched, r_runs, loop>>

(* Ingestion runs are started one at a time: the external run when the loop  *)
(* is not in its check_for_new_data job, and that job when no external run   *)
(* is in flight. The retrain job of the loop is not an ingestion run and     *)
(* starts whenever the loop is free.                                        *)
RaceNext ==
    \/ \E b \in SchedBatches : UploadBatch(b[1], b[2], b[3])
    \/ SchedStartRetrainCheck
    \/ SchedTest
    \/ \E ok \in BOOLEAN : SchedTrainingEnds(ok)
    \/ SchedSaveOpen
    \/ SchedSaveDump
    \/ \E predOk \in BOOLEAN : SchedRefresh(predOk)
    \/ \E f \in {"none", "train_a", "train_b"} :
          ext.pc = "none" /\ SchedStartNewData(Inputs(f))
    \/ \E f \in {"none", "train_a", "train_b"} : SchedSecondScript(Inputs(f))
    \/ sched.job # "check_for_new_data" /\ ExtLoad
    \/ \E okA \in BOOLEAN : ExtCheckA(okA)
    \/ \E okB \in BOOLEAN : ExtCheckB(okB)
    \/ ExtSave
    \/ ExtRefresh

RaceSpec == Init /\ [][RaceNext]_vars

----------------------------------------------------------------------------
(* reindex_user_ids.py *)
START_ID == 2000

(* sorted(S) *)
RECURSIVE SortedList(_)
SortedList(S) ==
    IF S = {} THEN <<>>
    ELSE LET least == CHOOSE x \in S : \A y \in S : x <= y
         IN <<least>> \o SortedList(S \ {least})

(* Mutant: next_id grows after every second old id only. *)
EnumerateFrom_in_pairs(old_ids) ==
    [oid \in ToSet(old_ids) |->
        START_ID + (((CHOOSE i \in DOMAIN old_ids : old_ids[i] = oid) - 1) \div 2)]

(* Lines 54-58: next_id starts at START_ID and grows by one per old id. *)
EnumerateFrom(old_ids) ==
    [oid \in ToSet(old_ids) |->
        START_ID + (CHOOSE i \in DOMAIN old_ids : old_ids[i] = oid) - 1]

(* pd.to_numeric(df['userid'], errors='coerce').dropna().astype(int).unique() *)
NumericIds(df) ==
    {df.rows[i]["userid"][2] : i \in {j \in DOMAIN df.rows : df.rows[j]["userid"][1] = "n"}}

(* Mutant: the old ids are numbered in their order in the file. *)
build_id_map_unsorted(main_df) ==
    EnumerateFrom(
        LET F[i \in 0..Len(main_df.rows)] ==
                IF i = 0 THEN <<>>
                ELSE IF main_df.rows[i]["userid"][1] # "n"
                        \/ main_df.rows[i]["userid"][2] \in ToSet(F[i - 1])
                     THEN F[i - 1]
                     ELSE Append(F[i - 1], main_df.rows[i]["userid"][2])
        IN F[Len(main_df.rows)])

(* Mutant: the old ids are numbered from the largest down. *)
build_id_map_descending(main_df) ==
    EnumerateFrom(
        LET up == SortedList(NumericIds(main_df))
        IN [i \in DOMAIN up |-> up[Len(up) + 1 - i]])

(* build_id_map(), lines 53-59, for a main dataset that can be read and has  *)
(* a userid column.                                                          *)
build_id_map(main_df) == EnumerateFrom(SortedList(NumericIds(main_df)))

(* Lines 48-52: build_id_map raises; an empty file makes read_csv raise.    *)
BuildRaises(mainFile) == ~Exists(mainFile) \/ "userid" \notin ToSet(mainFile.cols)

(* Mutant: an id that is not in the map is lost instead of kept. *)
RemapCell_dropping_unknown(cell, id_map) ==
    IF cell[1] = "n" /\ cell[2] \in DOMAIN id_map THEN Num(id_map[cell[2]])
    ELSE Empty

(* Lines 67-68: to_numeric turns a text into NaN; an id of the map is        *)
(* replaced, any other number is kept.                                       *)
RemapCell(cell, id_map) ==
    IF cell[1] = "s" THEN Empty
    ELSE IF cell[1] = "n" /\ cell[2] \in DOMAIN id_map THEN Num(id_map[cell[2]])
    ELSE cell

(* Mutant: the map is applied to the column a second time, so that an id    *)
(* whose image is itself an old id gets the image of its image.             *)
remap_csv_twice(file, id_map) ==
    IF ~Exists(file) \/ "userid" \notin ToSet(file.cols) THEN file
    ELSE [cols |-> file.cols,
          rows |-> [i \in DOMAIN file.rows |->
                      [file.rows[i] EXCEPT
                          !["userid"] = RemapCell(RemapCell(@, id_map), id_map)]]]

(* remap_csv(path, id_map): the new content of the file. *)
remap_csv(file, id_map) ==
    IF ~Exists(file) \/ "userid" \notin ToSet(file.cols) THEN file
    ELSE [cols |-> file.cols,
          rows |-> [i \in DOMAIN file.rows |->
                      [file.rows[i] EXCEPT !["userid"] = RemapCell(@, id_map)]]]

(* Path.rename / Path.replace in a directory given by name: the file p gets  *)
(* the name q, replacing what had that name.                                 *)
Rename(dir, p, q, content) ==
    [k \in (DOMAIN dir \ {p}) \cup {q} |-> IF k = q THEN content ELSE dir[k]]

Unlink(dir, q) == [k \in DOMAIN dir \ {q} |-> dir[k]]

(* remap_explanations, lines 76-95, for one file p of the glob: the new      *)
(* content of the directory. A file of the listing that is gone makes open   *)
(* raise, which is caught.                                                   *)
remap_explanation(dir, p, id_map) ==
    IF p \notin DOMAIN dir THEN dir
    ELSE IF dir[p].user_id \notin DOMAIN id_map THEN dir
    ELSE Rename(dir, p, id_map[dir[p].user_id],
                [dir[p] EXCEPT !.user_id = id_map[dir[p].user_id]])

(* remap_charts, lines 102-114, for one file p of the glob. The new name is  *)
(* unlinked before the rename, which raises when p is gone.                  *)
remap_chart(dir, p, id_map) ==
    IF p \notin DOMAIN id_map THEN dir
    ELSE IF id_map[p] = p THEN dir
    ELSE IF p \in DOMAIN dir THEN Rename(dir, p, id_map[p], dir[p])
    ELSE Unlink(dir, id_map[p])

(* The files of a directory that a step rewrote, renamed or removed. *)
Changed(dir, dir2) ==
    {k \in DOMAIN dir : k \notin DOMAIN dir2 \/ dir[k] # dir2[k]}

(* DATASET_FILES: the authoritative dataset, the two training tables, and   *)
(* churn_prediction.csv for the prediction tables.                          *)
DatasetCount == 4
DatasetFile(i) ==
    IF i = 1 THEN main ELSE IF i = 2 THEN tableA ELSE IF i = 3 THEN tableB ELSE r_pred

----------------------------------------------------------------------------
(* ReindexSpec: one run of reindex_user_ids.main over datasets and outputs  *)
(* that exist, with ingestions before and after it.                         *)
MainIdLists == {<<2000, 2001>>, <<2001, 2002>>, <<2005, 2001>>, <<1999, 2000>>}

ExistingRow(id, i) == [userid |-> Num(id), feat |-> Num(100 + i), review |-> Text(1)]

MainFiles ==
    {[cols |-> <<"userid", "feat", "review">>,
      rows |-> [i \in DOMAIN ids |-> ExistingRow(ids[i], i)]] : ids \in MainIdLists}
    \cup {NoFile,
          [cols |-> <<"feat", "review">>,
           rows |-> <<[feat |-> Num(101), review |-> Text(1)]>>]}

IdsOfFile(file) ==
    IF "userid" \in ToSet(file.cols) THEN UseridsOf(file.rows) ELSE {}

(* Ids of a prediction table that the authoritative dataset may lack: none, *)
(* the base, or an id above every id of the dataset.                        *)
UnknownIds == {<<>>, <<START_ID>>, <<2009>>}

(* A prediction table with a row per id. *)
PredFile(ids) ==
    [cols |-> <<"userid">>, rows |-> [i \in DOMAIN ids |-> [userid |-> Num(ids[i])]]]

ReindexInit ==
    /\ inbox = NoFile
    /\ prep = NoFile
    /\ tableA = NoFile
    /\ tableB = NoFile
    /\ ctrFile = "missing"
    /\ ctr = ZeroCounters
    /\ ev = <<>>
    /\ hist = [uploaded |-> 0, sinceA |-> 0, sinceB |-> 0, trainsA |-> 0, trainsB |-> 0,
               pendA |-> FALSE, pendB |-> FALSE, resetA |-> 0, resetB |-> 0,
               steps |-> 0, faulted |-> FALSE]
    /\ m_target = NoFile
    /\ m_before = NoFile
    /\ m_batch = NoFile
    /\ m_count = 0
    /\ m_fallback = <<>>
    /\ m_clock = 0
    /\ m_raised = FALSE
    /\ m_redirected = <<>>
    /\ loop = "running"
    /\ main \in MainFiles
    /\ \E extra \in UnknownIds :
          r_pred = PredFile(extra \o SortedList(IdsOfFile(main)))
    /\ r_expl = [k \in IdsOfFile(main) |-> [user_id |-> k, owner |-> k]]
    /\ r_charts = [k \in IdsOfFile(main) |-> [owner |-> k]]
    /\ r_backup = {}
    /\ r_phase = "idle"
    /\ r_pc = 1
    /\ r_map = <<>>
    /\ r_todo = {}
    /\ r_hist = [expl0 |-> IdsOfFile(main), charts0 |-> IdsOfFile(main),
                 mutated |-> {}, backupAtFirst |-> {},
                 used |-> IdsOfFile(main), reused |-> {}]
    /\ preds = NoPredictions
    /\ sched = Idle
    /\ archive = <<>>
    /\ r_runs = 0
    /\ ext = NotRunning

(* History: the files a step changed, and the backups present when the run  *)
(* changed its first file.                                                  *)
Mutated(h, files, backup) ==
    [h EXCEPT !.mutated = @ \cup files,
              !.backupAtFirst = IF h.mutated = {} /\ files # {} THEN backup ELSE @]

(* Line 120: backup_paths(DATASET_FILES, backup_root) *)
RBackupDatasets ==
    /\ r_phase = "idle"
    /\ r_phase' = "backed_up"
    /\ r_backup' = {<<"csv", i>> : i \in {j \in 1..DatasetCount : Exists(DatasetFile(j))}}
    /\ UNCHANGED <<pvars, mvars, fvars, xvars, loop, r_pred, r_expl, r_charts, r_pc, r_map,
                   r_todo, r_hist>>

(* Line 122: id_map = build_id_map() *)
RBuildIdMap ==
    /\ r_phase = "backed_up"
    /\ IF BuildRaises(main)
       THEN r_phase' = "error" /\ UNCHANGED r_map
       ELSE r_phase' = "remap_csv" /\ r_map' = build_id_map(read_csv(main))
    /\ UNCHANGED <<pvars, mvars, fvars, xvars, loop, r_pred, r_expl, r_charts, r_backup, r_pc,
                   r_todo, r_hist>>

(* Lines 125-126: remap_csv of the next dataset file. *)
RRemapCsv ==
    /\ r_phase = "remap_csv"
    /\ main' = IF r_pc = 1 THEN remap_csv(main, r_map) ELSE main
    /\ tableA' = IF r_pc = 2 THEN remap_csv(tableA, r_map) ELSE tableA
    /\ tableB' = IF r_pc = 3 THEN remap_csv(tableB, r_map) ELSE tableB
    /\ r_pred' = IF r_pc = 4 THEN remap_csv(r_pred, r_map) ELSE r_pred
    /\ r_pc' = r_pc + 1
    /\ r_phase' = IF r_pc = DatasetCount THEN "backup_outputs" ELSE "remap_csv"
    /\ r_hist' = [Mutated(r_hist,
                          IF Exists(DatasetFile(r_pc)) THEN {<<"csv", r_pc>>} ELSE {},
                          r_backup)
                    EXCEPT !.used = @ \cup IdsOfFile(main')]
    /\ UNCHANGED <<inbox, prep, ctrFile, ctr, ev, hist, mvars, fvars, xvars, loop, r_expl,
                   r_charts, r_backup, r_map, r_todo>>

(* Lines 129-131: the backups of the explanations and charts; line 75: the  *)
(* listing of the explanation files.                                        *)
RBackupOutputs ==
    /\ r_phase = "backup_outputs"
    /\ r_phase' = "remap_explanations"
    /\ r_backup' = r_backup \cup {<<"expl", k>> : k \in DOMAIN r_expl}
                            \cup {<<"chart", k>> : k \in DOMAIN r_charts}
    /\ r_todo' = DOMAIN r_expl
    /\ UNCHANGED <<pvars, mvars, fvars, xvars, loop, r_pred, r_expl, r_charts, r_pc, r_map, r_hist>>

(* Lines 75-95 for one file of the listing, in any order. *)
RRemapExplanation(p) ==
    /\ r_phase = "remap_explanations"
    /\ p \in r_todo
    /\ r_todo' = r_todo \ {p}
    /\ r_expl' = remap_explanation(r_expl, p, r_map)
    /\ r_hist' = Mutated(r_hist, {<<"expl", k>> : k \in Changed(r_expl, r_expl')}, r_backup)
    /\ UNCHANGED <<pvars, mvars, fvars, xvars, loop, r_pred, r_charts, r_backup, r_phase, r_pc, r_map>>

(* Line 133, line 101: the listing of the chart files. *)
RExplanationsDone ==
    /\ r_phase = "remap_explanations"
    /\ r_todo = {}
    /\ r_phase' = "remap_charts"
    /\ r_todo' = DOMAIN r_charts
    /\ UNCHANGED <<pvars, mvars, fvars, xvars, loop, r_pred, r_expl, r_charts, r_backup, r_pc,
                   r_map, r_hist>>

(* Lines 101-114 for one file of the listing, in any order. *)
RRemapChart(p) ==
    /\ r_phase = "remap_charts"
    /\ p \in r_todo
    /\ r_todo' = r_todo \ {p}
    /\ r_charts' = remap_chart(r_charts, p, r_map)
    /\ r_hist' = Mutated(r_hist, {<<"chart", k>> : k \in Changed(r_charts, r_charts')},
                         r_backup)
    /\ UNCHANGED <<pvars, mvars, fvars, xvars, loop, r_pred, r_expl, r_backup, r_phase, r_pc, r_map>>

(* Lines 135-136 *)
RChartsDone ==
    /\ r_phase = "remap_charts"
    /\ r_todo = {}
    /\ r_phase' = "done"
    /\ UNCHANGED <<pvars, mvars, fvars, xvars, loop, r_pred, r_expl, r_charts, r_backup, r_pc,
                   r_map, r_todo, r_hist>>

(* The run is killed between two steps. *)
RAbort ==
    /\ r_phase \in {"backed_up", "remap_csv", "backup_outputs", "remap_explanations",
                    "remap_charts"}
    /\ r_phase' = "aborted"
    /\ UNCHANGED <<pvars, mvars, fvars, xvars, loop, r_pred, r_expl, r_charts, r_backup, r_pc,
                   r_map, r_todo, r_hist>>

(* The front end writes a batch of one record to the inbox. *)
RUpload ==
    /\ r_phase \in {"idle", "done"}
    /\ UploadBatch(1, 1, FALSE)

(* python scripts/process_upload.py, before or after the reindex run.       *)
(* History: the userids that have been in the authoritative dataset, and    *)
(* those among them that the ingestor gave to a new record.                 *)
RProcessUpload ==
    /\ r_phase \in {"idle", "done"}
    /\ hist.steps < MaxSteps
    /\ Exists(inbox)
    /\ LeaveFiles(process_user_uploads(Cur, Inputs("none")))
    /\ r_hist' = [r_hist EXCEPT
                    !.used = @ \cup IdsOfFile(main'),
                    !.reused = @ \cup ((IdsOfFile(main') \ IdsOfFile(main)) \cap r_hist.used)]
    /\ UNCHANGED <<mvars, fvars, xvars, loop, r_pred, r_expl, r_charts, r_backup, r_phase, r_pc,
                   r_map, r_todo>>

ReindexNext ==
    \/ RBackupDatasets
    \/ RBuildIdMap
    \/ RRemapCsv
    \/ RBackupOutputs
    \/ \E p \in r_todo : RRemapExplanation(p)
    \/ RExplanationsDone
    \/ \E p \in r_todo : RRemapChart(p)
    \/ RChartsDone
    \/ RAbort
    \/ RUpload
    \/ RProcessUpload

ReindexSpec == ReindexInit /\ [][ReindexNext]_vars

----------------------------------------------------------------------------
(* RerunSpec: the reindexer is run, to its end, and run again; ingestions   *)
(* come before the first run only.                                          *)

(* python scripts/reindex_user_ids.py once more: main starts with a new     *)
(* backup directory and no map.                                             *)
RAgain ==
    /\ r_phase = "done"
    /\ r_runs = 0
    /\ r_runs' = 1
    /\ r_phase' = "idle"
    /\ r_pc' = 1
    /\ r_backup' = {}
    /\ r_map' = <<>>
    /\ r_todo' = {}
    /\ UNCHANGED <<pvars, mvars, fvars, preds, sched, archive, ext, loop, r_pred, r_expl,
                   r_charts, r_hist>>

RerunNext ==
    \/ RBackupDatasets
    \/ RBuildIdMap
    \/ RRemapCsv
    \/ RBackupOutputs
    \/ \E p \in r_todo : RRemapExplanation(p)
    \/ RExplanationsDone
    \/ \E p \in r_todo : RRemapChart(p)
    \/ RChartsDone
    \/ (r_phase = "idle" /\ r_runs = 0 /\ RUpload)
    \/ (r_phase = "idle" /\ r_runs = 0 /\ RProcessUpload)
    \/ RAgain

RerunSpec == ReindexInit /\ [][RerunNext]_vars

----------------------------------------------------------------------------
(* The refresh of the downstream artifacts: churn_prediction.py,            *)
(* explain_user.py --all and explinableAI.py, and the prediction files that *)
(* the training scripts write.                                              *)
IdList(table) == [i \in DOMAIN table.rows |-> table.rows[i]["userid"][2]]

(* train_model_a.py lines 130-138, train_model_b.py lines 89-96: a          *)
(* prediction for every row of the training table.                          *)
PredictionsOf(table) == PredFile(IdList(table))

CurArtifacts == [preds |-> preds, pred |-> r_pred, expl |-> r_expl, charts |-> r_charts]

(* The prediction files after the training scripts that succeeded in a run. *)
AfterTraining(art, s, events) ==
    [art EXCEPT
       !.preds.a = IF "train_a_ok" \in ToSet(events) THEN PredictionsOf(s.tableA) ELSE @,
       !.preds.b = IF "train_b_ok" \in ToSet(events) THEN PredictionsOf(s.tableB) ELSE @]

(* churn_prediction.py: read_csv of either prediction file raises when the  *)
(* file is absent; the output has the rows of model_a_predictions.csv (left *)
(* merge on userid, lines 22 and 49-50).                                    *)
churn_prediction(art) ==
    IF Exists(art.preds.a) /\ Exists(art.preds.b)
    THEN [art EXCEPT !.pred = art.preds.a]
    ELSE art

(* explain_user.py lines 28-40, explinableAI.py lines 22-29: the models,    *)
(* written by the training scripts with the prediction files, the training  *)
(* tables and churn_prediction.csv are loaded at the start of the script.   *)
ExplainerLoads(art, s) ==
    /\ Exists(art.preds.a)
    /\ Exists(art.preds.b)
    /\ Exists(s.tableA)
    /\ Exists(s.tableB)
    /\ Exists(art.pred)

(* explain_user.py line 179 and lines 94-101, explinableAI.py lines 265-276: *)
(* the users of churn_prediction.csv that have a row in model_a_train.csv.  *)
Explained(art, s) ==
    {uid \in IdsOfFile(art.pred) : uid \in UseridsOf(s.tableA.rows)}

WriteArtifacts(art, E) ==
    [art EXCEPT
       !.expl = [k \in DOMAIN art.expl \cup E |->
                    IF k \in E THEN [user_id |-> k, owner |-> k] ELSE art.expl[k]],
       !.charts = [k \in DOMAIN art.charts \cup E |->
                    IF k \in E THEN [owner |-> k] ELSE art.charts[k]]]

(* explain_user.py --all: main, lines 178-184, and generate_for_user, which *)
(* writes user_<id>.png (line 144) and user_<id>.json (line 165).           *)
explain_user_all(art, s) ==
    IF ExplainerLoads(art, s) THEN WriteArtifacts(art, Explained(art, s)) ELSE art

(* explinableAI.py: the loop of lines 265-396 writes the chart (line 363)   *)
(* and the JSON (line 395) of the same users.                               *)
explinableAI(art, s) ==
    IF ExplainerLoads(art, s) THEN WriteArtifacts(art, Explained(art, s)) ELSE art

RunIf(events, e, art, art2) == IF e \in ToSet(events) THEN art2 ELSE art

(* process_new_data lines 199-205: the three scripts, each whatever the     *)
(* outcome of the one before.                                               *)
RefreshPredictions(art, events) == RunIf(events, "churn_prediction", art, churn_prediction(art))
RefreshExplanations(art, s, events) ==
    RunIf(events, "explain_user_all", art, explain_user_all(art, s))
RefreshBusiness(art, s, events) == RunIf(events, "explinableAI", art, explinableAI(art, s))

(* The artifacts a run of the ingestor leaves: s the files it leaves,       *)
(* events what it did.                                                      *)
Refresh(art, s, events) ==
    RefreshBusiness(
        RefreshExplanations(
            RefreshPredictions(AfterTraining(art, s, events), events),
            s, events),
        s, events)

----------------------------------------------------------------------------
(* RefreshSpec: ingestions with the artifacts they regenerate, on a fresh   *)
(* installation or on one in which both models were trained on the users    *)
(* 2000 and 2001.                                                           *)
RefreshBatches == {<<2, 1, FALSE>>, <<11, 11, FALSE>>}

DeployedMain ==
    [cols |-> <<"userid", "feat", "review">>,
     rows |-> <<ExistingRow(START_ID, 1), ExistingRow(START_ID + 1, 2)>>]

RefreshInit ==
    /\ inbox = NoFile
    /\ prep = NoFile
    /\ ev = <<>>
    /\ ctr = ZeroCounters
    /\ hist = [uploaded |-> 0, sinceA |-> 0, sinceB |-> 0, trainsA |-> 0, trainsB |-> 0,
               pendA |-> FALSE, pendB |-> FALSE, resetA |-> 0, resetB |-> 0,
               steps |-> 0, faulted |-> FALSE]
    /\ m_target = NoFile
    /\ m_before = NoFile
    /\ m_batch = NoFile
    /\ m_count = 0
    /\ m_fallback = <<>>
    /\ m_clock = 0
    /\ m_raised = FALSE
    /\ m_redirected = <<>>
    /\ loop = "running"
    /\ r_backup = {}
    /\ r_phase = "idle"
    /\ r_pc = 1
    /\ r_map = <<>>
    /\ r_todo = {}
    /\ r_hist = [expl0 |-> {}, charts0 |-> {}, mutated |-> {}, backupAtFirst |-> {},
                 used |-> {}, reused |-> {}]
    /\ sched = Idle
    /\ archive = <<>>
    /\ r_runs = 0
    /\ ext = NotRunning
    /\ \E deployed \in BOOLEAN :
          IF deployed
          THEN /\ main = DeployedMain
               /\ tableA = to_csv(DropColumn(read_csv(DeployedMain), "review"))
               /\ tableB = DeployedMain
               /\ ctrFile = "ok"
               /\ preds = [a |-> PredictionsOf(DeployedMain), b |-> PredictionsOf(DeployedMain)]
               /\ r_pred = PredictionsOf(DeployedMain)
               /\ r_expl = [k \in IdsOfFile(DeployedMain) |-> [user_id |-> k, owner |-> k]]
               /\ r_charts = [k \in IdsOfFile(DeployedMain) |-> [owner |-> k]]
          ELSE /\ main = NoFile
               /\ tableA = NoFile
               /\ tableB = NoFile
               /\ ctrFile = "missing"
               /\ preds = NoPredictions
               /\ r_pred = NoFile
               /\ r_expl = <<>>
               /\ r_charts = <<>>

(* A run of the ingestor and the artifacts it leaves, a second or more     *)
(* after the run before it.                                                 *)
RefreshRun(r) ==
    /\ hist.steps < MaxSteps
    /\ LeaveFiles(r)
    /\ m_clock' = m_clock + 1
    /\ archive' = Archived(archive, m_clock + 1, r.s.prep, r.ev)
    /\ preds' = Refresh(CurArtifacts, r.s, r.ev).preds
    /\ r_pred' = Refresh(CurArtifacts, r.s, r.ev).pred
    /\ r_expl' = Refresh(CurArtifacts, r.s, r.ev).expl
    /\ r_charts' = Refresh(CurArtifacts, r.s, r.ev).charts
    /\ UNCHANGED <<mvars, m_fallback, m_raised, m_redirected, loop, sched, r_runs, ext,
                   r_backup, r_phase, r_pc, r_map, r_todo, r_hist>>

(* python scripts/process_upload.py *)
RefProcessUpload(in) == RefreshRun(process_user_uploads(Cur, in))

(* The loop's check_for_new_data job. *)
RefCheckForNewData(in) == RefreshRun(check_for_new_data(Cur, in, in))

RefreshNext ==
    \/ \E b \in RefreshBatches : UploadBatch(b[1], b[2], b[3])
    \/ \E f \in {"none", "train_a", "train_b"} : RefProcessUpload(Inputs(f))
    \/ RefCheckForNewData(Inputs("none"))

RefreshSpec == RefreshInit /\ [][RefreshNext]_vars

----------------------------------------------------------------------------
(* Helpers of the statements. *)
KeysOf(file) == {file.rows[i]["userid"] : i \in DOMAIN file.rows}
RowsOf(file, k) == {i \in DOMAIN file.rows : file.rows[i]["userid"] = k}
LastRowOf(file, k) ==
    file.rows[CHOOSE i \in RowsOf(file, k) : \A j \in RowsOf(file, k) : j <= i]
Restrict(row, cols) == [c \in ToSet(cols) |-> row[c]]
OneRowPerUserid(file) ==
    \A i, j \in DOMAIN file.rows :
        file.rows[i]["userid"] = file.rows[j]["userid"] => i = j

(* Statements about the pipeline. *)
Events == ToSet(ev)
Before(e1, e2) ==
    \E i, j \in DOMAIN ev : i < j /\ ev[i] = e1 /\ ev[j] = e2
ReviewedPayloads(rows) == {rows[i]["feat"][2] : i \in {j \in DOMAIN rows : HasReview(rows[j])}}
CopiesInMain(p) == Cardinality({i \in DOMAIN main.rows : main.rows[i]["feat"][2] = p})

(* C1: a model's persisted counter is set to zero exactly when that model's *)
(* training completed without error. Every successful training is followed, *)
(* in the same run, by a write of the counter file that holds 0 for the      *)
(* model (23 resets to 0, not to 3), and no step lowers a persisted counter  *)
(* without a successful training of that same model.                         *)
C1_StepA ==
    /\ (ctrFile = "ok" /\ ctrFile' = "ok" /\ ctr'.model_a < ctr.model_a)
          => hist'.trainsA > hist.trainsA
    /\ hist'.trainsA > hist.trainsA
          => /\ ctrFile' = "ok"
             /\ ~hist'.pendA
             /\ hist'.resetA = 0
             /\ ("loop_process_new_data" \notin ToSet(ev') => ctr'.model_a = 0)
C1_StepB ==
    /\ (ctrFile = "ok" /\ ctrFile' = "ok" /\ ctr'.model_b < ctr.model_b)
          => hist'.trainsB > hist.trainsB
    /\ hist'.trainsB > hist.trainsB
          => /\ ctrFile' = "ok"
             /\ ~hist'.pendB
             /\ hist'.resetB = 0
             /\ ("loop_process_new_data" \notin ToSet(ev') => ctr'.model_b = 0)
C1_ResetOnlyOnSuccess == [][C1_StepA /\ C1_StepB]_vars

(* C1 witness: Model B was trained on 11 new reviewed records, more than its *)
(* threshold; its counter is 0 and Model A's counter kept its 11.            *)
C1_Witness ==
    /\ "train_b_ok" \in Events
    /\ "train_a" \notin Events
    /\ hist.trainsB = 1
    /\ Cardinality(ReviewedPayloads(main.rows)) > FREQ_MODEL_B
    /\ ctrFile = "ok"
    /\ ctr.model_b = 0
    /\ ctr.model_a = 11

(* C2: counter correctness. Every ingested batch is counted exactly once:    *)
(* when the inbox has been consumed, Model A's counter is the number of      *)
(* records ingested since its last successful retrain and Model B's the      *)
(* number of those with a review (the counter file being intact).            *)
C2_CounterCorrectness ==
    (ctrFile = "ok" /\ ~hist.faulted /\ ~Exists(inbox)) =>
        /\ ctr.model_a = hist.sinceA
        /\ ctr.model_b = hist.sinceB

(* C3: identifier monotonicity. Whenever the authoritative dataset changes,  *)
(* its old rows are kept and the added rows carry the records of the inbox   *)
(* under fresh userids: consecutive, each greater than every userid that was *)
(* in the dataset, starting at 2000 when the dataset was absent or empty,    *)
(* whatever userid the records came with; no two rows share a userid.        *)
C3_Step ==
    main' # main =>
        LET old == Len(main.rows)
            added == (old + 1)..Len(main'.rows)
        IN /\ Len(main'.rows) = old + Len(inbox.rows)
           /\ \A i \in 1..old : main'.rows[i] = main.rows[i]
           /\ \A i \in added :
                 /\ main'.rows[i]["feat"] = inbox.rows[i - old]["feat"]
                 /\ \A u \in UseridsOf(main.rows) : main'.rows[i]["userid"][2] > u
                 /\ i > old + 1 =>
                       main'.rows[i]["userid"][2] = main'.rows[i - 1]["userid"][2] + 1
           /\ (main.rows = <<>> /\ added # {}) => main'.rows[1]["userid"] = Num(2000)
           /\ OneRowPerUserid(main')
C3_IdentifierMonotonicity == [][C3_Step]_vars

(* C3 witness: a batch uploaded with userids of its own (all 2000) was       *)
(* ingested twice, the inbox not having been cleared after the first time;   *)
(* its 20 rows carry 2000..2019.                                             *)
C3_Witness ==
    /\ hist.uploaded = 10
    /\ Len(main.rows) = 20
    /\ HasReview(main.rows[1])
    /\ UseridsOf(main.rows) = 2000..2019
    /\ main.rows[11]["feat"] = main.rows[1]["feat"]

(* C4: no record is lost or duplicated across runs, also when a run fails    *)
(* between two of its side effects: an uploaded record is never twice in the *)
(* authoritative dataset, and once the inbox is consumed it is in it.        *)
C4_NoLossNoDuplicate ==
    \A p \in 1..hist.uploaded :
        /\ CopiesInMain(p) <= 1
        /\ ~Exists(inbox) => CopiesInMain(p) = 1

(* C5: at most one successful training per crossing of the threshold: k      *)
(* successful trainings of a model need k times its threshold of new         *)
(* records.                                                                  *)
C5_AtMostOncePerThreshold ==
    /\ hist.trainsA * FREQ_MODEL_A <= Cardinality(Payloads(main.rows))
    /\ hist.trainsB * FREQ_MODEL_B <= Cardinality(ReviewedPayloads(main.rows))

(* C6: in no entry point is a training invocation issued for a model whose   *)
(* training table is absent or empty.                                        *)
C6_NoTrainingWithoutTable ==
    /\ "train_a" \in Events => Exists(tableA)
    /\ "train_b" \in Events => Exists(tableB)

(* C7: always refresh. A run whose ingestion cycle succeeded (the batch was  *)
(* ingested and the downstream processing did not raise), and a run that ran *)
(* a training script, with either outcome, also triggers the prediction      *)
(* regeneration and after it the explanation regeneration.                   *)
Explains == {"explain_user_all", "explinableAI", "explainableAI"}
RefreshedAfter(e) ==
    \E x \in Explains : Before(e, "churn_prediction") /\ Before("churn_prediction", x)
C7_AlwaysRefresh ==
    /\ ("ingested" \in Events /\ "split_raised" \notin Events
            /\ "load_counters_raised" \notin Events)
          => \E x \in Explains : Before("churn_prediction", x)
    /\ "train_a" \in Events => RefreshedAfter("train_a")
    /\ "train_b" \in Events => RefreshedAfter("train_b")

----------------------------------------------------------------------------
(* Statements about merges. *)
(* C8: after any sequence of merges into a training table, also the first   *)
(* merge into an absent or empty table and merges of batches that repeat a  *)
(* userid, the table holds at most one row per userid.                      *)
C8_AtMostOneRowPerUserid == OneRowPerUserid(m_target)

(* C9: last-write-wins merge without row loss. After a merge the keys of the *)
(* table are the keys of the old table and of the batch together; the row of *)
(* a key of the batch carries, on the batch's columns, the values of the     *)
(* batch's last row for that key, and no row of that key carries other       *)
(* values than the batch's; a key of the old table alone has exactly one     *)
(* row, which carries on the old columns the values of its last old row.     *)
C9_LastWriteWinsNoRowLoss ==
    m_count > 0 =>
        /\ KeysOf(m_target) = KeysOf(m_before) \cup KeysOf(m_batch)
        /\ \A k \in KeysOf(m_batch) :
              /\ Restrict(LastRowOf(m_target, k), m_batch.cols) = LastRowOf(m_batch, k)
              /\ \A i \in RowsOf(m_target, k) :
                    Restrict(m_target.rows[i], m_batch.cols) \in ToSet(m_batch.rows)
        /\ \A k \in KeysOf(m_before) \ KeysOf(m_batch) :
              /\ Cardinality(RowsOf(m_target, k)) = 1
              /\ Restrict(LastRowOf(m_target, k), m_before.cols) = LastRowOf(m_before, k)

(* C9 witness: a second merge whose batch overrides the values of a key of   *)
(* the table while another key of the table is not in the batch.            *)
C9_Witness ==
    /\ m_count = 2
    /\ \E k \in KeysOf(m_before) \cap KeysOf(m_batch) :
          LastRowOf(m_before, k)["b"] # LastRowOf(m_batch, k)["b"]
    /\ KeysOf(m_before) \ KeysOf(m_batch) # {}

C11_MergeFailurePolicy ==
    /\ m_raised => m_target = m_before
    /\ Cardinality(DOMAIN m_fallback) = Len(m_redirected)
    /\ \A i \in DOMAIN m_redirected :
          \E t \in DOMAIN m_fallback : m_fallback[t] = m_redirected[i]

(* C12: the caller is informed of a failed primary merge. A run in which the *)
(* batch was redirected to a fallback file does not go on as after a         *)
(* successful merge: it does not add the batch to the counters.              *)
C12_CallerInformed ==
    /\ ~Before("append_error_a", "counters_updated")
    /\ ~Before("append_error_b", "counters_updated")

(* C13: a failed training leads to a retry. A run in which a model's         *)
(* training failed and did not succeed leaves no exception and leaves the    *)
(* model's counter readable and at or above its threshold; a retrain check   *)
(* leaves the counter of a model whose training failed as it was; and every  *)
(* retrain check that finds a counter at or above the threshold issues the   *)
(* model's training, so the training is issued again at every check until    *)
(* one succeeds.                                                             *)
C13_StepA ==
    /\ ("train_a_failed" \in ToSet(ev') /\ "train_a_ok" \notin ToSet(ev'))
          => /\ ctrFile' = "ok"
             /\ ctr'.model_a >= FREQ_MODEL_A
             /\ "check_retrain" \in ToSet(ev') => ctr'.model_a = ctr.model_a
    /\ ("check_retrain" \in ToSet(ev') /\ ctrFile = "ok" /\ ctr.model_a >= FREQ_MODEL_A)
          => "train_a" \in ToSet(ev')
C13_StepB ==
    /\ ("train_b_failed" \in ToSet(ev') /\ "train_b_ok" \notin ToSet(ev'))
          => /\ ctrFile' = "ok"
             /\ ctr'.model_b >= FREQ_MODEL_B
             /\ "check_retrain" \in ToSet(ev') => ctr'.model_b = ctr.model_b
    /\ ("check_retrain" \in ToSet(ev') /\ ctrFile = "ok" /\ ctr.model_b >= FREQ_MODEL_B)
          => "train_b" \in ToSet(ev')
C13_FailureLeadsToRetry == [][C13_StepA /\ C13_StepB]_vars

(* C13 witness: a retrain check has issued Model B's training, which failed  *)
(* although its table has rows; the counter still holds the 11 records.      *)
C13_Witness ==
    /\ ev = <<"check_retrain", "train_b", "train_b_failed">>
    /\ tableB.rows # <<>>
    /\ ctrFile = "ok"
    /\ ctr.model_b = 11

(* C14: the scheduling loop ends only on the external stop signal: whatever  *)
(* is raised inside a job, the loop is running or was interrupted.           *)
C14_LoopEndsOnlyOnSignal == loop \in {"running", "interrupted"}

----------------------------------------------------------------------------
(* Statements about the reindexer. *)
MapBuilt == r_phase = "remap_csv" /\ r_pc = 1
Range(f) == {f[k] : k \in DOMAIN f}
Reverse(f) == [n \in Range(f) |-> CHOOSE k \in DOMAIN f : f[k] = n]
RoundTrip(file) == remap_csv(remap_csv(file, r_map), Reverse(r_map))

(* C15: reindex bijection. The map that build_id_map returns for a dataset   *)
(* with n distinct userids has exactly these userids as its domain, takes    *)
(* exactly the values 2000 .. 2000+n-1, and is increasing, so it is a        *)
(* bijection that numbers the old userids in ascending order.                *)
C15_ReindexBijection ==
    MapBuilt =>
        LET ids == IdsOfFile(main)
        IN /\ DOMAIN r_map = ids
           /\ Range(r_map) = 2000..(2000 + Cardinality(ids) - 1)
           /\ \A a, b \in ids : a < b => r_map[a] < r_map[b]

(* C15 witness: the dataset lists 2005 before 2001; the map sends 2001 to    *)
(* 2000 and 2005 to 2001.                                                    *)
C15_Witness ==
    /\ MapBuilt
    /\ main.rows[1]["userid"] = Num(2005)
    /\ r_map[2001] = 2000
    /\ r_map[2005] = 2001

(* C16: after a complete reindex, whatever the order in which the files were *)
(* visited, every explanation and chart that existed for a mapped userid is  *)
(* under the name of the new userid of the same user, the explanation's      *)
(* user_id is that new userid, and the authoritative dataset holds the new   *)
(* userids.                                                                  *)
C16_ArtifactsFollowTheMap ==
    r_phase = "done" =>
        /\ \A k \in r_hist.expl0 \cap DOMAIN r_map :
              /\ r_map[k] \in DOMAIN r_expl
              /\ r_expl[r_map[k]] = [user_id |-> r_map[k], owner |-> k]
        /\ \A k \in r_hist.charts0 \cap DOMAIN r_map :
              /\ r_map[k] \in DOMAIN r_charts
              /\ r_charts[r_map[k]].owner = k
        /\ Range(r_map) \subseteq IdsOfFile(main)

(* C17: the reindex never deletes. In every state of a run, also of an       *)
(* aborted one, each user's explanation and chart is present under its old   *)
(* or its new name, and is that user's.                                      *)
C17_NeverMissing ==
    /\ \A k \in r_hist.expl0 :
          \/ k \in DOMAIN r_expl /\ r_expl[k].owner = k
          \/ /\ k \in DOMAIN r_map
             /\ r_map[k] \in DOMAIN r_expl
             /\ r_expl[r_map[k]].owner = k
    /\ \A k \in r_hist.charts0 :
          \/ k \in DOMAIN r_charts /\ r_charts[k].owner = k
          \/ /\ k \in DOMAIN r_map
             /\ r_map[k] \in DOMAIN r_charts
             /\ r_charts[r_map[k]].owner = k

(* C18: backup before mutate. Every file the run has rewritten, renamed or   *)
(* removed was in the backup when the run changed its first file, and a run  *)
(* that ended in an error of build_id_map has changed no file.               *)
C18_BackupBeforeMutate ==
    /\ r_hist.mutated \subseteq r_hist.backupAtFirst
    /\ r_phase = "error" => r_hist.mutated = {}

(* C19, as stated: the identifier map and then the reverse map restore the   *)
(* userid of every row of every derived table, also of rows whose userid is  *)
(* not in the map.                                                           *)
C19_RoundTrip ==
    MapBuilt => \A i \in 2..DatasetCount : RoundTrip(DatasetFile(i)) = DatasetFile(i)

(* C19, amended: the round trip restores the userid of every row whose       *)
(* userid is in the map or is not one of the new userids; an unmapped userid *)
(* that equals a new userid passes through the map unchanged and is sent by  *)
(* the reverse map to the old userid of another user.                        *)
C19_RoundTripAmended ==
    MapBuilt =>
        \A i \in 2..DatasetCount :
            \A j \in DOMAIN DatasetFile(i).rows :
                LET id == DatasetFile(i).rows[j]["userid"]
                    back == RoundTrip(DatasetFile(i)).rows[j]["userid"]
                IN IF id[2] \in DOMAIN r_map \/ id[2] \notin Range(r_map)
                   THEN back = id
                   ELSE back = Num(Reverse(r_map)[id[2]]) /\ back # id

(* C19 witness: the map is not the identity, and the prediction table has a  *)
(* mapped userid and one that is neither in the map nor a new userid.        *)
C19_Witness ==
    /\ MapBuilt
    /\ \E k \in DOMAIN r_map : r_map[k] # k
    /\ \E k \in IdsOfFile(r_pred) : k \in DOMAIN r_map
    /\ \E k \in IdsOfFile(r_pred) : k \notin DOMAIN r_map /\ k \notin Range(r_map)

(* C20: identifiers are never reused. The ingestor never gives a new record  *)
(* a userid that has been in the authoritative dataset before, whatever      *)
(* reindex run came in between.                                              *)
C20_NeverReused == r_hist.reused = {}

----------------------------------------------------------------------------
(* Statements about the ingestion cycle. *)
Pos(e) == CHOOSE i \in DOMAIN ev : ev[i] = e /\ \A j \in 1..(i - 1) : ev[j] # e

(* The events of process_upload.py in the last run: a run of the loop's     *)
(* check_for_new_data goes on with a second process_new_data.               *)
IngestCycle ==
    IF "loop_process_new_data" \in Events
    THEN SubSeq(ev, 1, Pos("loop_process_new_data") - 1)
    ELSE ev

(* The preprocessed file holds the rows that the cycle appended to the      *)
(* authoritative dataset, under the userids they have there.                *)
PrepIsTailOfMain ==
    LET k == Len(prep.rows)
        n == Len(main.rows)
    IN /\ Exists(prep)
       /\ prep.cols[1] = "userid"
       /\ k > 0
       /\ k <= n
       /\ \A i \in 1..k :
             /\ prep.rows[i]["userid"] = main.rows[n - k + i]["userid"]
             /\ prep.rows[i]["feat"] = main.rows[n - k + i]["feat"]

C22_DownstreamFailureNonFatal ==
    LET c == IngestCycle IN
    ("save_prep" \in ToSet(c)
        /\ ("split_raised" \in ToSet(c) \/ "load_counters_raised" \in ToSet(c)))
    => /\ SubSeq(c, Len(c) - 1, Len(c)) = <<"clear_inbox", "ingested">>
       /\ ~Exists(inbox)
       /\ PrepIsTailOfMain

(* C22 witness: the split raised on a batch of two records without a        *)
(* review; the two are in the dataset and the inbox is cleared.             *)
C22_Witness ==
    /\ ev = <<"save_main", "save_uploads", "save_prep", "split_raised",
              "clear_inbox", "ingested">>
    /\ Len(main.rows) = 2
    /\ ~Exists(inbox)

(* C23: the inbox is cleared only after a fully successful cycle. After a   *)
(* cycle in which the write of the authoritative dataset, of the inbox or   *)
(* of the preprocessed copy failed, the inbox holds its rows, and none of   *)
(* them is in the authoritative dataset.                                    *)
C23_ClearedOnlyAfterSuccess ==
    "ingest_error" \in Events =>
        /\ Exists(inbox)
        /\ inbox.rows # <<>>
        /\ Payloads(inbox.rows) \cap Payloads(main.rows) = {}

(* C24: nothing to do. With the inbox missing, of size zero or without a    *)
(* row, process_user_uploads leaves every file as it is and runs nothing;   *)
(* with the inbox missing or of size zero, check_for_new_data runs no       *)
(* script. Whatever would fail if something were run.                       *)
C24_NothingToDo ==
    /\ (~Exists(inbox) \/ inbox.rows = <<>>) =>
          \A f \in UploadFaults :
              LET r == process_user_uploads(Cur, Inputs(f))
              IN /\ r.s = Cur
                 /\ r.ev \in {<<>>, <<"nothing_to_do">>}
                 /\ ~r.raised
    /\ ~Exists(inbox) =>
          \A f \in UploadFaults :
              check_for_new_data(Cur, Inputs(f), Inputs(f))
                  = [s |-> Cur, ev |-> <<>>, raised |-> FALSE]

(* C24 witness: the ingestor has found an inbox with a header and no row,   *)
(* with a dataset and a preprocessed batch of an earlier cycle in place.    *)
C24_Witness ==
    /\ ev = <<"nothing_to_do">>
    /\ Exists(inbox)
    /\ inbox.rows = <<>>
    /\ main.rows # <<>>
    /\ Exists(prep)
    /\ Exists(tableA)

(* C29: the authoritative dataset is append-only. No step removes or        *)
(* changes a row of it, and a step that changes it appends as many rows as  *)
(* the inbox holds.                                                         *)
C29_Step ==
    /\ Len(main'.rows) >= Len(main.rows)
    /\ \A i \in DOMAIN main.rows : main'.rows[i] = main.rows[i]
    /\ UseridsOf(main.rows) \subseteq UseridsOf(main'.rows)
    /\ main' # main => Len(main'.rows) = Len(main.rows) + Len(inbox.rows)
C29_AppendOnly == [][C29_Step]_vars

(* C29 witness: two batches of two records each were ingested.              *)
C29_Witness ==
    /\ "ingested" \in Events
    /\ hist.uploaded = 4
    /\ Len(main.rows) = 4
    /\ UseridsOf(main.rows) = 2000..2003

(* C30: the last-retrain timestamp goes with the counter reset. With the    *)
(* counter file intact, the timestamp it holds for a model is that of the   *)
(* model's latest successful training, in whichever entry point it ran, and *)
(* no failed or skipped training changes it.                                *)
C30_TimestampWithReset ==
    (ctrFile = "ok" /\ ~hist.faulted) =>
        /\ ctr.last_retrain_a = hist.trainsA
        /\ ctr.last_retrain_b = hist.trainsB

(* C26: after a batch ingestion whose refresh ran, with both models trained *)
(* and whether or not a retrain fired, every userid of the authoritative    *)
(* dataset, those of the batch just ingested included, has an explanation   *)
(* and a chart.                                                             *)
C26_RegeneratedForAll ==
    ("ingested" \in Events /\ "explain_user_all" \in Events
        /\ Exists(preds.a) /\ Exists(preds.b))
    => /\ UseridsOf(main.rows) \subseteq DOMAIN r_expl
       /\ UseridsOf(main.rows) \subseteq DOMAIN r_charts

----------------------------------------------------------------------------
(* Statements about the scheduling loop, step by step. *)
(* C25: the counter record is written atomically. At every instant, and     *)
(* also after a writer was interrupted in save_counters, the counter file   *)
(* is missing or holds a complete record.                                   *)
C25_AtomicCounterWrite == ctrFile \in {"missing", "ok"}

(* C27: retrains are serialized per model. In the scheduling loop at most   *)
(* one training script of a model is running at any time, and a training    *)
(* script runs only inside the one job in flight.                           *)
C27_RetrainsSerialized ==
    /\ sched.running.a <= 1
    /\ sched.running.b <= 1
    /\ sched.running.a + sched.running.b <= 1
    /\ (sched.running.a + sched.running.b > 0)
          => (sched.job = "check_retrain" /\ sched.pc = "training")

(* C27 witness: Model B's training script is running in a retrain check     *)
(* while a new batch waits in the inbox for the next poll.                  *)
C27_Witness ==
    /\ sched.job = "check_retrain"
    /\ sched.running.b = 1
    /\ Exists(inbox)
    /\ loop = "running"

(* C28: cancellation. When the loop has been stopped by the external        *)
(* signal, no retrain is left half done: the loop is not stopped inside a   *)
(* training script, between a successful training and the write of the     *)
(* counter record, inside that write, or before the refresh that follows.   *)
C28_InFlightCheckCompleted ==
    loop = "interrupted"
        => sched.pc \notin {"training", "open_counters", "dump_counters", "refresh"}

(* The events of the script that a step of the loop ran. *)
ScriptEvents == IF sched.pc = "second_script" THEN SubSeq(ev', Len(ev) + 1, Len(ev')) ELSE ev'
ScriptRan ==
    \/ sched.pc # "second_script" /\ sched'.pc = "second_script"
    \/ sched.pc = "second_script" /\ sched'.pc = "none"

(* C32: a training is issued only at or above the threshold. When the       *)
(* retrain check launches a model's training script, the model's persisted  *)
(* counter is at least the model's threshold (20 for Model A, 10 for Model  *)
(* B); when process_new_data issues a training, the counter it loaded plus  *)
(* the batch's increment is at least the threshold.                         *)
C32_Step ==
    /\ sched'.running.a > sched.running.a => ap_load_counters(Cur).model_a >= 20
    /\ sched'.running.b > sched.running.b => ap_load_counters(Cur).model_b >= 10
    /\ (ScriptRan /\ "train_a" \in ToSet(ScriptEvents))
          => pnd_load_counters(Cur).model_a + Len(prep'.rows) >= 20
    /\ (ScriptRan /\ "train_b" \in ToSet(ScriptEvents))
          => pnd_load_counters(Cur).model_b + Len(SelectSeq(prep'.rows, HasReview)) >= 10
C32_TrainingOnlyAtThreshold == [][C32_Step]_vars

(* C32 witness: the retrain check has launched the training of Model A, its *)
(* counter being 20 or more, and Model B's counter is below its threshold.  *)
C32_Witness ==
    /\ sched.pc = "training"
    /\ sched.m = "a"
    /\ sched.running.a = 1
    /\ ctr.model_a >= FREQ_MODEL_A
    /\ ctr.model_b < FREQ_MODEL_B

(* C33: merge is idempotent. A merge of the batch that the merge before it  *)
(* merged into the same training table leaves the table's set of rows as    *)
(* that merge left it.                                                      *)
C33_Step ==
    (m_count >= 1 /\ m_count' = m_count + 1 /\ m_batch' = m_batch)
        => ToSet(m_target'.rows) = ToSet(m_target.rows)
C33_MergeIdempotent == [][C33_Step]_vars

----------------------------------------------------------------------------
(* Further statements about the reindexer. *)
RemappedFile ==
    IF r_pc = 1 THEN main' ELSE IF r_pc = 2 THEN tableA' ELSE IF r_pc = 3 THEN tableB'
    ELSE r_pred'

(* C34: remap_csv applies the map in one simultaneous step. The step that   *)
(* remaps a derived table leaves its columns and the number of its rows, a  *)
(* row whose userid is in the map gets the image of that userid, a row      *)
(* whose userid is not in the map keeps it, and the cells of all other      *)
(* columns are as before.                                                   *)
C34_Step ==
    (r_phase = "remap_csv" /\ r_pc' = r_pc + 1 /\ r_pc >= 2
        /\ "userid" \in ToSet(DatasetFile(r_pc).cols))
    => /\ RemappedFile.cols = DatasetFile(r_pc).cols
       /\ Len(RemappedFile.rows) = Len(DatasetFile(r_pc).rows)
       /\ \A i \in DOMAIN DatasetFile(r_pc).rows :
             LET old == DatasetFile(r_pc).rows[i]
                 new == RemappedFile.rows[i]
             IN /\ old["userid"][2] \in DOMAIN r_map
                      => new["userid"] = Num(r_map[old["userid"][2]])
                /\ old["userid"][2] \notin DOMAIN r_map => new["userid"] = old["userid"]
                /\ \A c \in DOMAIN old \ {"userid"} : new[c] = old[c]
C34_SimultaneousRemap == [][C34_Step]_vars

(* C34 witness: the map sends 1999 to 2000 and 2000 to 2001; the prediction *)
(* table has been remapped and holds the images 2000 and 2001 and the       *)
(* unmapped 2009.                                                           *)
C34_Witness ==
    /\ r_phase = "backup_outputs"
    /\ DOMAIN r_map = {1999, 2000}
    /\ r_map[1999] = 2000
    /\ r_map[2000] = 2001
    /\ IdsOfFile(r_pred) = {2000, 2001, 2009}

RemapStep(i) == r_phase = "remap_csv" /\ r_pc' = r_pc + 1 /\ r_pc = i
UnmappedIds(file) == IdsOfFile(file) \ DOMAIN r_map
MappedIds(file) == IdsOfFile(file) \cap DOMAIN r_map

(* C37, as stated: a derived table that has at most one row per userid      *)
(* before the reindex run has at most one row per userid after it, also     *)
(* when it holds userids that the authoritative dataset lacks.              *)
C37_Step ==
    \A i \in 2..DatasetCount :
        (RemapStep(i) /\ OneRowPerUserid(DatasetFile(i))) => OneRowPerUserid(RemappedFile)
C37_UniquenessPreserved == [][C37_Step]_vars

(* C37, amended: a derived table that has at most one row per userid before *)
(* the reindex run has at most one row per userid after it exactly when no  *)
(* userid of the table that the map lacks is the new userid of another row  *)
(* of the table; in particular when every userid of the table is in the     *)
(* authoritative dataset.                                                   *)
C37_StepAmended ==
    \A i \in 2..DatasetCount :
        (RemapStep(i) /\ "userid" \in ToSet(DatasetFile(i).cols)
            /\ OneRowPerUserid(DatasetFile(i)))
        => (OneRowPerUserid(RemappedFile)
              <=> \A u \in UnmappedIds(DatasetFile(i)), k \in MappedIds(DatasetFile(i)) :
                      r_map[k] # u)
C37_UniquenessPreservedAmended == [][C37_StepAmended]_vars

(* C37 witness: the prediction table, remapped by a map that is not the     *)
(* identity, holds the unmapped userid 2009 beside the new userids and has  *)
(* one row per userid.                                                      *)
C37_Witness ==
    /\ r_phase = "backup_outputs"
    /\ \E k \in DOMAIN r_map : r_map[k] # k
    /\ 2009 \in IdsOfFile(r_pred)
    /\ Range(r_map) \subseteq IdsOfFile(r_pred)
    /\ OneRowPerUserid(r_pred)

(* C38: reindexing is idempotent. In a run that directly follows a          *)
(* completed run the map is the identity, and no step of it changes a       *)
(* dataset file, an explanation or its name, or a chart name.               *)
C38_Step ==
    (r_runs = 1 /\ r_runs' = 1)
    => /\ main' = main
       /\ tableA' = tableA
       /\ tableB' = tableB
       /\ r_pred' = r_pred
       /\ r_expl' = r_expl
       /\ r_charts' = r_charts
       /\ r_phase' = "remap_csv" => \A k \in DOMAIN r_map' : r_map'[k] = k
C38_ReindexIdempotent == [][C38_Step]_vars

(* C38 witness: the second run is done; the first had renamed the           *)
(* explanation and the chart of a user, and the training tables exist.      *)
C38_Witness ==
    /\ r_runs = 1
    /\ r_phase = "done"
    /\ \E k \in DOMAIN r_expl : r_expl[k].owner # k
    /\ \E k \in DOMAIN r_charts : r_charts[k].owner # k
    /\ Exists(tableA)

----------------------------------------------------------------------------
(* Statements about the archive. *)
(* C31: every batch consumed by process_new_data is copied to the archive   *)
(* after the refresh, and no run overwrites or changes the archive copy of  *)
(* an earlier run, also when both runs fall into one clock second.          *)
C31_Step ==
    /\ \A t \in DOMAIN archive : t \in DOMAIN archive' /\ archive'[t] = archive[t]
    /\ (hist'.steps > hist.steps /\ "counters_updated" \in ToSet(ev'))
          => /\ m_clock' \in DOMAIN archive'
             /\ archive'[m_clock'] = prep'
             /\ \E i, j \in DOMAIN ev' : i < j /\ ev'[i] = "explinableAI" /\ ev'[j] = "archive"
C31_ArchiveImmutable == [][C31_Step]_vars

(* The refresh of the step failed: the prediction script or the explainers  *)
(* exited non-zero, for want of a prediction file or of a table they load.  *)
RefreshFailed == "churn_prediction" \in ToSet(ev') /\ ~ExplainerLoads(CurArtifacts, Cur)'
BatchIds == UseridsOf(prep'.rows)

(* C35: a failure of the downstream refresh rolls nothing back. After a run *)
(* of process_new_data in which a refresh script failed, the counter file   *)
(* holds the counters saved before the refresh, the training tables and the *)
(* authoritative dataset hold the batch, the remaining refresh scripts were *)
(* run after the one that failed, and the batch is in the archive.          *)
C35_Step ==
    RefreshFailed
    => /\ ctrFile' = "ok"
       /\ "loop_process_new_data" \notin ToSet(ev')
             => /\ ctr'.model_a = IF "train_a_ok" \in ToSet(ev') THEN 0
                                  ELSE pnd_load_counters(Cur).model_a + Len(prep'.rows)
                /\ ctr'.model_b = IF "train_b_ok" \in ToSet(ev') THEN 0
                                  ELSE pnd_load_counters(Cur).model_b
                                       + Len(SelectSeq(prep'.rows, HasReview))
       /\ BatchIds \subseteq IdsOfFile(tableA')
       /\ UseridsOf(SelectSeq(prep'.rows, HasReview)) \subseteq IdsOfFile(tableB')
       /\ BatchIds \subseteq IdsOfFile(main')
       /\ \E i, j, k, l, n \in DOMAIN ev' :
             /\ i < j /\ j < k /\ k < l /\ l < n
             /\ ev'[i] = "save_counters"
             /\ ev'[j] = "churn_prediction"
             /\ ev'[k] = "explain_user_all"
             /\ ev'[l] = "explinableAI"
             /\ ev'[n] = "archive"
       /\ m_clock' \in DOMAIN archive'
       /\ archive'[m_clock'] = prep'
C35_RefreshFailureRollsNothingBack == [][C35_Step]_vars

(* C35 witness: on a fresh installation a first batch of two records was    *)
(* processed: no model is trained yet, the prediction script and the        *)
(* explainers failed, and the batch is counted, merged and archived.        *)
C35_Witness ==
    /\ "churn_prediction" \in ToSet(ev)
    /\ ~Exists(preds.a)
    /\ ~Exists(r_pred)
    /\ ctrFile = "ok"
    /\ ctr.model_a = 2
    /\ Len(tableA.rows) = 2
    /\ m_clock \in DOMAIN archive
    /\ archive[m_clock] = prep

----------------------------------------------------------------------------
(* C36: the derived tables stay consistent with the authoritative dataset.  *)
(* After any sequence of runs of the pipeline every userid of Model A's     *)
(* training table is a userid of the authoritative dataset, every userid of *)
(* Model B's training table is in Model A's table, and every row of Model   *)
(* B's table has a review.                                                  *)
C36_DerivedTablesConsistent ==
    /\ IdsOfFile(tableA) \subseteq IdsOfFile(main)
    /\ IdsOfFile(tableB) \subseteq IdsOfFile(tableA)
    /\ \A i \in DOMAIN tableB.rows : HasReview(tableB.rows[i])

(* The record a writer of the counter file leaves is its own update applied  *)
(* to the record the file held just before: the other writer's values are    *)
(* carried over as they are.                                                 *)
ExtWrites == ext.pc = "save" /\ ext'.pc = "refresh"
LoopWrites == sched.pc = "dump_counters" /\ sched'.pc = "refresh"

(* C39: no counter update is lost. In every interleaving of a run of         *)
(* process_new_data with a retrain_model of the scheduling loop, the record  *)
(* that process_new_data saves holds, for each model, zero if the run        *)
(* trained it and else the persisted counter plus the batch's count, and the *)
(* persisted last-retrain times; the record that retrain_model saves holds   *)
(* the other model's persisted counter and last-retrain time, and a          *)
(* last-retrain time of its own model that is not older than the persisted   *)
(* one.                                                                      *)
C39_Step ==
    /\ ExtWrites =>
         /\ ctr'.model_a = IF ext.resetA THEN 0 ELSE ctr.model_a + ext.total
         /\ ctr'.model_b = IF ext.resetB THEN 0 ELSE ctr.model_b + ext.with_reviews
         /\ ctr'.last_retrain_a = ctr.last_retrain_a
         /\ ctr'.last_retrain_b = ctr.last_retrain_b
    /\ LoopWrites =>
         /\ sched.m = "a" =>
              /\ ctr'.model_b = ctr.model_b
              /\ ctr'.last_retrain_b = ctr.last_retrain_b
              /\ ctr'.last_retrain_a >= ctr.last_retrain_a
         /\ sched.m = "b" =>
              /\ ctr'.model_a = ctr.model_a
              /\ ctr'.last_retrain_a = ctr.last_retrain_a
              /\ ctr'.last_retrain_b >= ctr.last_retrain_b

C39_NoCounterUpdateLost == [][C39_Step]_vars

====
